---- MODULE Spec2Model ----
(***************************************************************************)
(* The REST back ends of the repository as state machines.                 *)
(*                                                                         *)
(*  - secure-blog API (task3): posts router behind authenticate /          *)
(*    optionalAuth / checkOwnership, over a Mongoose document store.       *)
(*  - express-blog API (task2): auth middleware, auth routes, and the      *)
(*    unprotected posts router.                                            *)
(*                                                                         *)
(* The applications are separate processes with separate stores: the       *)
(* variable app says which one a behaviour is a run of.  A request is      *)
(* processed in steps that end at each awaited database operation: the     *)
(* step does the database operation and the synchronous code that follows  *)
(* it, up to the next awaited operation or the response.                   *)
(***************************************************************************)
EXTENDS Integers, Sequences, FiniteSets, TLC

VARIABLES
    app,        \* which application this behaviour runs: "secure" | "task2"
    now,        \* the clock, in token-lifetime ticks
    users,      \* secure-blog account collection: id -> account
    posts,      \* secure-blog post collection: id -> post document | NoPost
    nextPost,   \* the next fresh post id (ObjectIds are never reused)
    reqs,       \* secure-blog requests in flight: slot -> request
    creator,    \* history: id -> the account whose POST created the post
    lastPut,    \* history: id -> the body of the last PUT saved to the post
    t2users,    \* task2 account collection: id -> user document
    t2posts,    \* task2 post collection: id -> post document | NoPost
    t2next,     \* task2: the next fresh post id
    t2reqs,     \* task2 requests in flight: slot -> request
    issued,     \* history: the tokens handed out, with account and issue time
    plain,      \* history: task2 account id -> its current plaintext password
    hits,       \* the global limiter's store: IP -> requests counted in the window
    served,     \* history: IP -> requests passed downstream in the window
    lastCode,   \* IP -> the status of its latest response (0: none yet)
    chatUp,     \* chat relay: the server process is running
    socks,      \* chat relay: socket -> connected, the rooms it is in
    wire,       \* chat relay: socket -> events sent by the client, not yet handled
    chatHistory,\* chat relay: the chatHistory object: own key -> messages
    inbox,      \* chat relay: socket -> events the server emitted to it, in order
    relayed,    \* history: the messages whose handler ran, in handler order
    emitted,    \* history: the number of messages clients have sent
    memPosts,   \* in-memory store: the posts array
    memNext,    \* in-memory store: the number of ids uuidv4 has handed out, plus one
    memRes,     \* in-memory store: the request served last and its response
    memLive     \* history: the ids created and not deleted since

vars == <<app, now, users, posts, nextPost, reqs, creator, lastPut,
          t2users, t2posts, t2next, t2reqs, issued, plain, hits, served,
          lastCode, chatUp, socks, wire, chatHistory, inbox, relayed, emitted,
          memPosts, memNext, memRes, memLive>>
secureVars == <<users, posts, nextPost, reqs, creator, lastPut>>
task2Vars == <<t2users, t2posts, t2next, t2reqs>>
limVars == <<hits, served, lastCode>>
chatVars == <<chatUp, socks, wire, chatHistory, inbox, relayed, emitted>>
memVars == <<memPosts, memNext, memRes, memLive>>
extVars == <<issued, plain, limVars, chatVars, memVars>>

----------------------------------------------------------------------------
(* Bounds of the model *)

MaxPosts == 2     \* post ids are 1..MaxPosts
MaxTime == 1      \* the clock runs 0..MaxTime
MaxIssued == 4    \* the history keeps the first MaxIssued tokens handed out
MaxServed == 101  \* requests of one IP followed within a window
MaxMsgs == 2      \* chat messages clients send
MaxWire == 1      \* events of one socket in flight
MaxViews == 2     \* reads of one post that are counted

----------------------------------------------------------------------------
(* Values *)

Users == {"u1", "u2", "adm"}
PostIds == 1 .. MaxPosts
Slots == {1, 2}

NoPost == [none |-> TRUE]
NoUser == [none |-> TRUE]
Undefined == "undefined"

\* An id string that is no ObjectId: Model.findById throws CastError on it.
MalformedId == 0 - 1

\* process.env.JWT_SECRET, and any other key a token may be signed with.
JWT_SECRET == "JWT_SECRET"
OtherKey == "other-key"

\* An Authorization header is absent, or a string.  A string is a sequence
\* of chunks: the literal "Bearer ", a compact JWT, or other text.
Bearer == [k |-> "bearer"]
Text == [k |-> "text"]
Jwt(u, key, exp) == [k |-> "jwt", userId |-> u, key |-> key, exp |-> exp]
HdrAbsent == [present |-> FALSE, chunks |-> <<>>]
Hdr(chunks) == [present |-> TRUE, chunks |-> chunks]

Jwts(keys, exps) == {Jwt(u, key, e) : u \in Users, key \in keys, e \in exps}

\* Every shape of header: none, empty, prefix only, text, and each token
\* with the prefix, bare, and with the prefix elsewhere.
AllHeaders(jwts) ==
    {HdrAbsent, Hdr(<<>>), Hdr(<<Bearer>>), Hdr(<<Text>>), Hdr(<<Bearer, Text>>)}
    \cup {Hdr(<<Bearer, t>>) : t \in jwts}
    \cup {Hdr(<<t>>) : t \in jwts}
    \cup {Hdr(<<t, Bearer>>) : t \in jwts}

\* Well-formed headers carrying a token the server issued, or none.
IssuedHeaders == {HdrAbsent} \cup {Hdr(<<Bearer, Jwt(u, JWT_SECRET, MaxTime + 1)>>) : u \in Users}

----------------------------------------------------------------------------
(* Request bodies and post documents (secure-blog) *)

\* express-validator limits of createPostValidation / updatePostValidation
TitleMin == 3
TitleMax == 200
BodyMin == 10
BodyMax == 5000
TagMax == 50

Statuses == {"draft", "published", "archived"}

NoTags == [given |-> FALSE, isArray |-> FALSE, val |-> <<>>]
Tags(seq) == [given |-> TRUE, isArray |-> TRUE, val |-> seq]
TagsNotArray == [given |-> TRUE, isArray |-> FALSE, val |-> <<>>]

Body(t, b, s, g) == [title |-> t, body |-> b, status |-> s, tags |-> g]
EmptyBody == Body(Undefined, Undefined, Undefined, NoTags)
NoPut == [none |-> TRUE]

\* String.prototype.trim and toLowerCase on the strings of the model
Trim(tag) ==
    CASE tag = " " -> ""
      [] tag = " World " -> "World"
      [] tag = " Hi " -> "Hi"
      [] tag = " js" -> "js"
      [] tag = " JS" -> "JS"
      [] OTHER -> tag

Lower(tag) ==
    CASE tag = "JS" -> "js"
      [] tag = " JS" -> " js"
      [] OTHER -> tag

LowerTrim(tag) == Trim(Lower(tag))

RECURSIVE Dedupe(_)
\* [...new Set(seq)]: the first occurrence of each element, in order
Dedupe(seq) ==
    IF seq = <<>> THEN <<>>
    ELSE LET init == Dedupe(SubSeq(seq, 1, Len(seq) - 1))
             last == seq[Len(seq)]
         IN IF \E i \in 1 .. Len(init) : init[i] = last THEN init
            ELSE Append(init, last)

NonEmptyTag(tag) == Len(tag) > 0

\* tags.map(tag => tag.toLowerCase().trim()).filter(tag => tag.length > 0),
\* then the Set round trip
ProcessTags(seq) ==
    Dedupe(SelectSeq([i \in 1 .. Len(seq) |-> LowerTrim(seq[i])], NonEmptyTag))

LengthBetween(str, lo, hi) == Len(str) >= lo /\ Len(str) <= hi

\* The sanitizers of the validation chains: body('title').trim() and
\* body('body').trim() replace the fields of req.body that are given
Sanitize(b) ==
    [b EXCEPT !.title = IF @ = Undefined THEN @ ELSE Trim(@),
              !.body = IF @ = Undefined THEN @ ELSE Trim(@)]

\* updatePostValidation: every field optional
UpdateValid(b) ==
    /\ b.title # Undefined => LengthBetween(b.title, TitleMin, TitleMax)
    /\ b.body # Undefined => LengthBetween(b.body, BodyMin, BodyMax)
    /\ b.status # Undefined => b.status \in Statuses
    /\ b.tags.given => b.tags.isArray

\* createPostValidation: title and body required (an absent field is trimmed
\* to the empty string and fails isLength), each tag 1..50 characters
CreateValid(b) ==
    /\ b.title # Undefined /\ LengthBetween(b.title, TitleMin, TitleMax)
    /\ b.body # Undefined /\ LengthBetween(b.body, BodyMin, BodyMax)
    /\ b.status # Undefined => b.status \in Statuses
    /\ b.tags.given => b.tags.isArray
    /\ b.tags.given =>
         \A i \in 1 .. Len(b.tags.val) :
             LengthBetween(Trim(b.tags.val[i]), 1, TagMax)

\* The reading speed of the readTime computation, words per minute
WordsPerMinute == 200

\* body.split(' ').length: one more than the number of spaces
Pieces(text) ==
    Cardinality({i \in 1 .. Len(text) : SubSeq(text, i, i) = " "}) + 1

\* Math.ceil(n / d)
Ceil(n, d) == (n + d - 1) \div d

\* The schema default of readTime
ReadTimeDefault(body) == Ceil(Pieces(body), WordsPerMinute)

\* new Post({title, body, user, status, tags}) of router.post('/'); the
\* timestamps are set when the document is saved
NewPost(b, owner) ==
    [user |-> owner,
     title |-> b.title,
     body |-> b.body,
     status |-> IF b.status = Undefined THEN "published" ELSE b.status,
     tags |-> IF b.tags.given THEN ProcessTags(b.tags.val) ELSE <<>>,
     readTime |-> ReadTimeDefault(b.body),
     updatedAt |-> 0]

\* "Update fields if provided" of router.put('/:id'), assigning every field
\* whether provided or not
ApplyUpdate_AssignAll(post, b) ==
    [post EXCEPT !.title = b.title,
                 !.body = b.body,
                 !.status = b.status,
                 !.tags = ProcessTags(b.tags.val)]

\* "Update fields if provided" of router.put('/:id')
ApplyUpdate(post, b) ==
    [post EXCEPT !.title = IF b.title # Undefined THEN b.title ELSE @,
                 !.body = IF b.body # Undefined THEN b.body ELSE @,
                 !.status = IF b.status # Undefined THEN b.status ELSE @,
                 !.tags = IF b.tags.given THEN ProcessTags(b.tags.val) ELSE @]

PostFields == {"user", "title", "body", "status", "tags"}

\* The paths Mongoose marks modified: those whose value differs from the
\* loaded one.  save() sends a $set of exactly these.
DirtyPaths(loaded, doc) == {f \in DOMAIN doc : doc[f] # loaded[f]}

\* postSchema.pre('save') and the timestamps option, for a document with
\* the modified paths dirty that is saved at time t
PostPreSave(doc, dirty, t) ==
    [doc EXCEPT
       !.readTime = IF "body" \in dirty
                    THEN (LET n == Ceil(Pieces(doc.body), WordsPerMinute)
                          IN IF n = 0 THEN 1 ELSE n)
                    ELSE @,
       !.updatedAt = IF dirty # {} THEN t ELSE @]

\* A save that sends no $set: the stored document stays as it was
SaveInto_Nothing(stored, doc, dirty) == stored

\* document.save() of a loaded document on the collection
SaveInto(stored, doc, dirty) ==
    [f \in DOMAIN doc |-> IF f \in dirty THEN doc[f] ELSE stored[f]]

----------------------------------------------------------------------------
(* Tokens and the Authorization header *)

\* authHeader.startsWith('Bearer ') ? authHeader.slice(7) : authHeader
ExtractToken(chunks) ==
    IF Len(chunks) > 0 /\ chunks[1] = Bearer THEN Tail(chunks) ELSE chunks

\* jwt.verify with ignoreExpiration: the expiry is not checked
JwtVerify_IgnoreExpiration(token, secret, t) ==
    IF Len(token) # 1 \/ token[1].k # "jwt"
    THEN [ok |-> FALSE, userId |-> "", error |-> "JsonWebTokenError"]
    ELSE IF token[1].key # secret
    THEN [ok |-> FALSE, userId |-> "", error |-> "JsonWebTokenError"]
    ELSE [ok |-> TRUE, userId |-> token[1].userId, error |-> ""]

\* jwt.verify(token, secret): the payload, or the error it throws.  The string
\* must be one compact JWT; the signature is checked before the expiry.
JwtVerify(token, secret, t) ==
    IF Len(token) # 1 \/ token[1].k # "jwt"
    THEN [ok |-> FALSE, userId |-> "", error |-> "JsonWebTokenError"]
    ELSE IF token[1].key # secret
    THEN [ok |-> FALSE, userId |-> "", error |-> "JsonWebTokenError"]
    ELSE IF t >= token[1].exp
    THEN [ok |-> FALSE, userId |-> "", error |-> "TokenExpiredError"]
    ELSE [ok |-> TRUE, userId |-> token[1].userId, error |-> ""]

\* Token lifetime of the secure-blog API, in hours (the unit of the clock):
\* process.env.JWT_EXPIRES_IN || '7d'
JWT_EXPIRES_IN == 168

\* A sign that stamps the lifetime as the expiry, without the issue time
JwtSign_ExpWithoutIat(userId, secret, options, t) ==
    LET claims == [k |-> "jwt", userId |-> userId, key |-> secret,
                   iat |-> t, exp |-> options.expiresIn]
    IN IF "issuer" \in DOMAIN options
       THEN claims @@ [iss |-> options.issuer, aud |-> options.audience]
       ELSE claims

\* jwt.sign({ userId }, secret, options) at time t: the payload, iat, exp =
\* iat + expiresIn, and iss / aud when the options give them; signed with
\* secret (the field key).
JwtSign(userId, secret, options, t) ==
    LET claims == [k |-> "jwt", userId |-> userId, key |-> secret,
                   iat |-> t, exp |-> t + options.expiresIn]
    IN IF "issuer" \in DOMAIN options
       THEN claims @@ [iss |-> options.issuer, aud |-> options.audience]
       ELSE claims

\* generateToken(userId), called at time t
GenerateToken(userId, t) ==
    JwtSign(userId, JWT_SECRET,
            [expiresIn |-> JWT_EXPIRES_IN, issuer |-> "secure-blog-api",
             audience |-> "blog-users"], t)

\* The claims a token carries: its fields but the marks of the model
Claims(token) == DOMAIN token \ {"k", "key"}

\* The history of tokens handed out: the first MaxIssued are kept
Record(history, token, u, site) ==
    IF Cardinality(history) < MaxIssued
    THEN history \cup {[tok |-> token, for |-> u, at |-> now, site |-> site]}
    ELSE history

----------------------------------------------------------------------------
(* secure-blog requests *)

NoId == 0

NewReq(m, h, p, b) ==
    [pc |-> "new", method |-> m, hdr |-> h, pid |-> p, body |-> b,
     decoded |-> "", user |-> NoUser, resource |-> NoPost, dirty |-> {},
     status |-> 0, nexts |-> 0, ownNext |-> FALSE, ran |-> FALSE,
     dbError |-> FALSE, limited |-> FALSE, data |-> NoPost]

IdleReq == [NewReq("NONE", HdrAbsent, NoId, EmptyBody) EXCEPT !.pc = "idle"]

\* res.status(code).json(...): the request is answered
Respond(q, code) == [q EXCEPT !.pc = "done", !.status = code]

\* Model.findById(id) on the post collection (id well formed)
FindPost(id) == IF id \in PostIds THEN posts[id] ELSE NoPost

\* The account as loaded by User.findById(...).select('-password')
LoadedUser(u) == [id |-> u, role |-> users[u].role]

\* The route handler of router.post('/'), up to its awaited post.save()
PostHandler(q) ==
    LET b == Sanitize(q.body) IN
    IF CreateValid(b) THEN [q EXCEPT !.pc = "create", !.ran = TRUE, !.body = b]
    ELSE Respond([q EXCEPT !.ran = TRUE, !.body = b], 400)

\* The route handler of router.put('/:id'), up to its awaited post.save():
\* it assigns the given fields to req.resource
PutHandler(q) ==
    LET b == Sanitize(q.body) IN
    IF UpdateValid(b)
    THEN LET doc == ApplyUpdate(q.resource, b) IN
         [q EXCEPT !.pc = "save", !.ran = TRUE, !.body = b, !.resource = doc,
                   !.dirty = DirtyPaths(q.resource, doc)]
    ELSE Respond([q EXCEPT !.ran = TRUE, !.body = b], 400)

\* createPostLimiter: the client that has used up its post creations of the
\* window is answered 429, the others go on to the handler
CreatePostLimiter(q) ==
    IF q.limited THEN Respond(q, 429) ELSE PostHandler(q)

\* What runs when the authentication middleware calls next(): the rest of
\* the route's chain, up to its first awaited operation.
AfterAuth(q) ==
    CASE q.method \in {"PUT", "DELETE"} -> [q EXCEPT !.pc = "own"]
      [] q.method = "POST" -> CreatePostLimiter(q)
      [] OTHER -> [q EXCEPT !.pc = "read", !.ran = TRUE]

\* authenticate without its check for a missing header: the request goes on
\* as in optionalAuth
AuthenticateSync_NoHeaderCheck(q) ==
    IF ~q.hdr.present \/ q.hdr.chunks = <<>>
    THEN AfterAuth([q EXCEPT !.nexts = @ + 1])
    ELSE LET token == ExtractToken(q.hdr.chunks) IN
         IF token = <<>> THEN Respond(q, 401)
         ELSE LET decoded == JwtVerify(token, JWT_SECRET, now) IN
              IF decoded.ok
              THEN [q EXCEPT !.pc = "auth", !.decoded = decoded.userId]
              ELSE Respond(q, 401)

\* authenticate with a session table: a token is refused once a later one
\* has been issued to the same account
AuthenticateSync_LatestTokenOnly(q) ==
    IF ~q.hdr.present \/ q.hdr.chunks = <<>> THEN Respond(q, 401)
    ELSE LET token == ExtractToken(q.hdr.chunks) IN
         IF token = <<>> THEN Respond(q, 401)
         ELSE LET decoded == JwtVerify(token, JWT_SECRET, now) IN
              IF /\ decoded.ok
                 /\ ~\E e \in issued : e.for = decoded.userId /\ e.tok.iat > token[1].iat
              THEN [q EXCEPT !.pc = "auth", !.decoded = decoded.userId]
              ELSE Respond(q, 401)

\* authenticate, from the header to the awaited User.findById
AuthenticateSync(q) ==
    IF ~q.hdr.present \/ q.hdr.chunks = <<>> THEN Respond(q, 401)
    ELSE LET token == ExtractToken(q.hdr.chunks) IN
         IF token = <<>> THEN Respond(q, 401)
         ELSE LET decoded == JwtVerify(token, JWT_SECRET, now) IN
              IF decoded.ok
              THEN [q EXCEPT !.pc = "auth", !.decoded = decoded.userId]
              ELSE IF decoded.error \in {"JsonWebTokenError", "TokenExpiredError"}
              THEN Respond(q, 401)
              ELSE Respond(q, 500)

\* authenticate without its isActive check
AuthenticateLookup_NoActiveCheck(q, dbError) ==
    IF dbError THEN Respond([q EXCEPT !.dbError = TRUE], 500)
    ELSE IF ~users[q.decoded].exists THEN Respond(q, 401)
    ELSE AfterAuth([q EXCEPT !.user = LoadedUser(q.decoded), !.nexts = @ + 1])

\* authenticate, from the result of User.findById on
AuthenticateLookup(q, dbError) ==
    IF dbError THEN Respond([q EXCEPT !.dbError = TRUE], 500)
    ELSE IF ~users[q.decoded].exists THEN Respond(q, 401)
    ELSE IF ~users[q.decoded].isActive THEN Respond(q, 401)
    ELSE AfterAuth([q EXCEPT !.user = LoadedUser(q.decoded), !.nexts = @ + 1])

\* optionalAuth, from the header to the awaited User.findById
OptionalAuthSync(q) ==
    IF ~q.hdr.present \/ q.hdr.chunks = <<>>
    THEN AfterAuth([q EXCEPT !.nexts = @ + 1])
    ELSE LET token == ExtractToken(q.hdr.chunks) IN
         IF token = <<>> THEN AfterAuth([q EXCEPT !.nexts = @ + 1])
         ELSE LET decoded == JwtVerify(token, JWT_SECRET, now) IN
              IF decoded.ok
              THEN [q EXCEPT !.pc = "auth", !.decoded = decoded.userId]
              ELSE AfterAuth([q EXCEPT !.nexts = @ + 1])

\* optionalAuth attaching whatever account the lookup finds
OptionalAuthLookup_NoActiveCheck(q, dbError) ==
    IF dbError THEN AfterAuth([q EXCEPT !.dbError = TRUE, !.nexts = @ + 1])
    ELSE IF users[q.decoded].exists
    THEN AfterAuth([q EXCEPT !.user = LoadedUser(q.decoded), !.nexts = @ + 1])
    ELSE AfterAuth([q EXCEPT !.nexts = @ + 1])

\* optionalAuth, from the result of User.findById on
OptionalAuthLookup(q, dbError) ==
    IF dbError THEN AfterAuth([q EXCEPT !.dbError = TRUE, !.nexts = @ + 1])
    ELSE IF users[q.decoded].exists /\ users[q.decoded].isActive
    THEN AfterAuth([q EXCEPT !.user = LoadedUser(q.decoded), !.nexts = @ + 1])
    ELSE AfterAuth([q EXCEPT !.nexts = @ + 1])

\* What runs when checkOwnership calls next()
AfterOwnership(q) ==
    IF q.method = "PUT" THEN PutHandler([q EXCEPT !.ownNext = TRUE])
    ELSE [q EXCEPT !.pc = "del", !.ownNext = TRUE, !.ran = TRUE]

\* The ownership comparison on the wrong field: the account id against itself
NotOwner_SelfCompare(resource, user) == user.id # user.id

\* resource.user.toString() !== req.user._id.toString()
NotOwner(resource, user) == resource.user # user.id

\* checkOwnership(Post), from the result of resourceModel.findById on
CheckOwnership(q, dbError) ==
    IF dbError THEN Respond([q EXCEPT !.dbError = TRUE], 500)
    ELSE IF q.pid = MalformedId THEN Respond(q, 500)
    ELSE LET resource == FindPost(q.pid) IN
         IF resource = NoPost THEN Respond(q, 404)
         ELSE IF q.user.role = "admin"
         THEN AfterOwnership([q EXCEPT !.resource = resource])
         ELSE IF NotOwner(resource, q.user) THEN Respond(q, 403)
         ELSE AfterOwnership([q EXCEPT !.resource = resource])

----------------------------------------------------------------------------
(* secure-blog: the routes of the posts router, step by step *)

Idle(r) == reqs[r].pc \in {"idle", "done"}

\* Creations that have been accepted and not yet saved
PendingCreates == Cardinality({r \in Slots : reqs[r].pc = "create"})

\* router.put('/:id', authenticate, checkOwnership(Post), ...): a request arrives
ArrivePut(r, headers, pids, bodies) ==
    /\ app = "secure"
    /\ Idle(r)
    /\ \E h \in headers, p \in pids, b \in bodies :
         reqs' = [reqs EXCEPT ![r] = AuthenticateSync(NewReq("PUT", h, p, b))]
    /\ UNCHANGED <<app, now, users, posts, nextPost, creator, lastPut, task2Vars, extVars>>

\* router.delete('/:id', authenticate, checkOwnership(Post), ...): a request arrives
ArriveDelete(r, headers, pids) ==
    /\ app = "secure"
    /\ Idle(r)
    /\ \E h \in headers, p \in pids :
         reqs' = [reqs EXCEPT
                    ![r] = AuthenticateSync(NewReq("DELETE", h, p, EmptyBody))]
    /\ UNCHANGED <<app, now, users, posts, nextPost, creator, lastPut, task2Vars, extVars>>

\* router.post('/', authenticate, ...): a request arrives
ArrivePost(r, headers, bodies, limits) ==
    /\ app = "secure"
    /\ Idle(r)
    /\ nextPost + PendingCreates <= MaxPosts
    /\ \E h \in headers, b \in bodies, l \in limits :
         reqs' = [reqs EXCEPT
                    ![r] = AuthenticateSync([NewReq("POST", h, NoId, b)
                                               EXCEPT !.limited = l])]
    /\ UNCHANGED <<app, now, users, posts, nextPost, creator, lastPut, task2Vars, extVars>>

\* router.get('/:id', optionalAuth, ...): a request arrives
ArriveGet(r, headers, pids) ==
    /\ app = "secure"
    /\ Idle(r)
    /\ \E h \in headers, p \in pids :
         reqs' = [reqs EXCEPT
                    ![r] = OptionalAuthSync(NewReq("GET", h, p, EmptyBody))]
    /\ UNCHANGED <<app, now, users, posts, nextPost, creator, lastPut, task2Vars, extVars>>

\* authenticate resumes with the result of User.findById
AuthenticateResume(r, dbErrors) ==
    /\ app = "secure"
    /\ reqs[r].pc = "auth"
    /\ reqs[r].method # "GET"
    /\ \E e \in dbErrors :
         reqs' = [reqs EXCEPT ![r] = AuthenticateLookup(reqs[r], e)]
    /\ UNCHANGED <<app, now, users, posts, nextPost, creator, lastPut, task2Vars, extVars>>

\* optionalAuth resumes with the result of User.findById
OptionalAuthResume(r, dbErrors) ==
    /\ app = "secure"
    /\ reqs[r].pc = "auth"
    /\ reqs[r].method \in {"GET", "LIST"}
    /\ \E e \in dbErrors :
         reqs' = [reqs EXCEPT ![r] = OptionalAuthLookup(reqs[r], e)]
    /\ UNCHANGED <<app, now, users, posts, nextPost, creator, lastPut, task2Vars, extVars>>

\* checkOwnership resumes with the result of resourceModel.findById
OwnershipResume(r, dbErrors) ==
    /\ app = "secure"
    /\ reqs[r].pc = "own"
    /\ \E e \in dbErrors :
         reqs' = [reqs EXCEPT ![r] = CheckOwnership(reqs[r], e)]
    /\ UNCHANGED <<app, now, users, posts, nextPost, creator, lastPut, task2Vars, extVars>>

\* router.put('/:id'): await post.save(), populate, respond.  A document
\* deleted since it was loaded makes save() throw DocumentNotFoundError.
PutSave(r) ==
    /\ app = "secure"
    /\ reqs[r].pc = "save"
    /\ LET q == reqs[r] IN
         IF posts[q.pid] = NoPost
         THEN /\ reqs' = [reqs EXCEPT ![r] = Respond(q, 500)]
              /\ UNCHANGED <<posts, lastPut>>
         ELSE LET doc == PostPreSave(q.resource, q.dirty, now)
                  dirty == q.dirty \cup DirtyPaths(q.resource, doc)
              IN /\ posts' = [posts EXCEPT
                                ![q.pid] = SaveInto(posts[q.pid], doc, dirty)]
                 /\ lastPut' = [lastPut EXCEPT ![q.pid] = q.body]
                 /\ reqs' = [reqs EXCEPT
                               ![r] = Respond([q EXCEPT !.data = doc], 200)]
    /\ UNCHANGED <<app, now, users, nextPost, creator, task2Vars, extVars>>

\* The update of save() that writes a document which is no longer stored
WriteBack_Upsert(stored, doc, dirty) ==
    IF stored = NoPost THEN doc ELSE SaveInto(stored, doc, dirty)

\* The update of save(): updateOne({ _id }, { $set: dirty paths }), which
\* matches nothing when the document is no longer stored
WriteBack(stored, doc, dirty) ==
    IF stored = NoPost THEN NoPost ELSE SaveInto(stored, doc, dirty)

\* router.put('/:id') among other requests: await post.save().  The save of
\* a document deleted since it was loaded throws DocumentNotFoundError.
PutStore(r) ==
    /\ app = "secure"
    /\ reqs[r].pc = "save"
    /\ LET q == reqs[r]
           doc == PostPreSave(q.resource, q.dirty, now)
           dirty == q.dirty \cup DirtyPaths(q.resource, doc)
           written == WriteBack(posts[q.pid], doc, dirty)
       IN IF written = NoPost
          THEN /\ reqs' = [reqs EXCEPT ![r] = Respond(q, 500)]
               /\ UNCHANGED <<posts, lastPut>>
          ELSE /\ posts' = [posts EXCEPT ![q.pid] = written]
               /\ lastPut' = [lastPut EXCEPT ![q.pid] = q.body]
               /\ reqs' = [reqs EXCEPT
                             ![r] = [q EXCEPT !.pc = "populate", !.data = doc]]
    /\ UNCHANGED <<app, now, users, nextPost, creator, task2Vars, extVars>>

\* router.put('/:id') among other requests: await post.populate(...), respond
PutRespond(r) ==
    /\ app = "secure"
    /\ reqs[r].pc = "populate"
    /\ reqs' = [reqs EXCEPT ![r] = Respond(reqs[r], 200)]
    /\ UNCHANGED <<app, now, users, posts, nextPost, creator, lastPut, task2Vars, extVars>>

\* router.delete('/:id'): await post.deleteOne(), respond
DeleteRun(r) ==
    /\ app = "secure"
    /\ reqs[r].pc = "del"
    /\ posts' = [posts EXCEPT ![reqs[r].pid] = NoPost]
    /\ lastPut' = [lastPut EXCEPT ![reqs[r].pid] = NoPut]
    /\ reqs' = [reqs EXCEPT ![r] = Respond(reqs[r], 200)]
    /\ UNCHANGED <<app, now, users, nextPost, creator, task2Vars, extVars>>

\* router.post('/'): await post.save(), populate, respond
PostSave(r) ==
    /\ app = "secure"
    /\ reqs[r].pc = "create"
    /\ nextPost <= MaxPosts
    /\ LET q == reqs[r]
           doc == PostPreSave(NewPost(q.body, q.user.id), PostFields, now)
       IN /\ posts' = [posts EXCEPT ![nextPost] = doc]
          /\ creator' = [creator EXCEPT ![nextPost] = q.user.id]
          /\ reqs' = [reqs EXCEPT
                        ![r] = Respond([q EXCEPT !.pid = nextPost, !.data = doc], 201)]
    /\ nextPost' = nextPost + 1
    /\ UNCHANGED <<app, now, users, lastPut, task2Vars, extVars>>

\* The handler of router.get('/:id'), from the result of
\* Post.findById(...).populate('user', ...) on.  populate leaves user null
\* when the owner's account is gone, and post.user._id then throws.
\* The single read with a visibility check that only asks for a signed-in
\* requester
GetHandler_AnySignedIn(q) ==
    IF q.pid = MalformedId THEN Respond(q, 400)
    ELSE LET post == FindPost(q.pid) IN
         IF post = NoPost THEN Respond(q, 404)
         ELSE IF post.status # "published" /\ q.user = NoUser THEN Respond(q, 404)
         ELSE Respond([q EXCEPT !.data = post], 200)

GetHandler(q) ==
    IF q.pid = MalformedId THEN Respond(q, 400)
    ELSE LET post == FindPost(q.pid) IN
         IF post = NoPost THEN Respond(q, 404)
         ELSE IF post.status # "published" /\ q.user = NoUser THEN Respond(q, 404)
         ELSE IF post.status # "published" /\ ~users[post.user].exists
         THEN Respond(q, 500)
         ELSE IF /\ post.status # "published"
                 /\ q.user.id # post.user
                 /\ q.user.role # "admin"
         THEN Respond(q, 404)
         ELSE Respond([q EXCEPT !.data = post], 200)

GetRun(r) ==
    /\ app = "secure"
    /\ reqs[r].pc = "read"
    /\ reqs[r].method = "GET"
    /\ reqs' = [reqs EXCEPT ![r] = GetHandler(reqs[r])]
    /\ UNCHANGED <<app, now, users, posts, nextPost, creator, lastPut, task2Vars, extVars>>

\* req.query of GET /posts
Query(page, limit, tag, author) ==
    [page |-> page, limit |-> limit, tag |-> tag, author |-> author]

\* A numeric query parameter, given or not
Num(n) == [given |-> TRUE, val |-> n]
NoNum == [given |-> FALSE, val |-> 0]

PageDefault == 1
LimitDefault == 10
LimitMax == 50

\* The validation chain of router.get('/')
QueryValid(qr) ==
    /\ qr.page.given => qr.page.val >= 1
    /\ qr.limit.given => (qr.limit.val >= 1 /\ qr.limit.val <= LimitMax)
    /\ qr.author # Undefined => qr.author \in Users

\* The filter of Post.find(query): status 'published', and the tag and the
\* author when given
Matches(post, qr) ==
    /\ post.status = "published"
    /\ qr.tag # Undefined =>
         \E i \in 1 .. Len(post.tags) : post.tags[i] = Lower(qr.tag)
    /\ qr.author # Undefined => post.user = qr.author

RECURSIVE Found(_, _)
\* Post.find(query).sort({ createdAt: -1 }): the ids of the matching posts
\* among 1 .. n, the latest first
Found(n, qr) ==
    IF n = 0 THEN <<>>
    ELSE (IF posts[n] # NoPost /\ Matches(posts[n], qr) THEN <<n>> ELSE <<>>)
         \o Found(n - 1, qr)

\* .populate('user', 'email role createdAt'): null for a missing account
Populate(post) ==
    [post EXCEPT !.user = IF users[post.user].exists
                          THEN [id |-> post.user, role |-> users[post.user].role]
                          ELSE [none |-> TRUE]]

\* skip = page * limit: the first page starts after the first limit posts
PageSkip_PageTimesLimit(page, limit) == page * limit

\* const skip = (page - 1) * limit
PageSkip(page, limit) == (page - 1) * limit

\* .skip(skip).limit(limit) of a query whose sorted result is found
Paged(found, skip, limit) ==
    LET last == IF skip + limit < Len(found) THEN skip + limit ELSE Len(found)
    IN SubSeq(found, skip + 1, last)

\* The pagination object of the two listings
Pagination(page, limit, totalPosts) ==
    LET totalPages == Ceil(totalPosts, limit)
    IN [currentPage |-> page,
        totalPages |-> totalPages,
        totalPosts |-> totalPosts,
        hasNextPage |-> page < totalPages,
        hasPrevPage |-> page > 1]

\* The documents of a page, each with its user populated
Documents(ids) ==
    [i \in 1 .. Len(ids) |-> [id |-> ids[i], post |-> Populate(posts[ids[i]])]]

\* The route handler of router.get('/'): validation result, query, page
ListHandler(q) ==
    LET qr == q.body
        page == IF qr.page.given THEN qr.page.val ELSE PageDefault
        limit == IF qr.limit.given THEN qr.limit.val ELSE LimitDefault
        skip == PageSkip(page, limit)
        found == Found(MaxPosts, qr)
        ids == Paged(found, skip, limit)
    IN IF ~QueryValid(qr) THEN Respond(q, 400)
       ELSE Respond([q EXCEPT
                !.data = [posts |-> Documents(ids),
                          pagination |-> Pagination(page, limit, Len(found))]], 200)

\* req.query of GET /my
MyQuery(page, limit, status) == [page |-> page, limit |-> limit, status |-> status]

\* The validation chain of router.get('/my')
MyQueryValid(qr) ==
    /\ qr.status # Undefined => qr.status \in Statuses
    /\ qr.page.given => qr.page.val >= 1
    /\ qr.limit.given => (qr.limit.val >= 1 /\ qr.limit.val <= LimitMax)

RECURSIVE FindByUser(_, _, _)
\* Post.findByUser(userId, { status, sort: { createdAt: -1 } }) before its
\* limit and skip: the ids of the user's posts of that status among 1 .. n,
\* the latest first
FindByUser(n, userId, status) ==
    IF n = 0 THEN <<>>
    ELSE (IF posts[n] # NoPost /\ posts[n].user = userId /\ posts[n].status = status
          THEN <<n>> ELSE <<>>)
         \o FindByUser(n - 1, userId, status)

\* The route handler of router.get('/my')
MyHandler(q) ==
    LET qr == q.body
        page == IF qr.page.given THEN qr.page.val ELSE PageDefault
        limit == IF qr.limit.given THEN qr.limit.val ELSE LimitDefault
        skip == PageSkip(page, limit)
        status == IF qr.status = Undefined THEN "published" ELSE qr.status
        found == FindByUser(MaxPosts, q.user.id, status)
        ids == Paged(found, skip, limit)
    IN IF ~MyQueryValid(qr) THEN Respond(q, 400)
       ELSE Respond([q EXCEPT
                !.data = [posts |-> Documents(ids),
                          pagination |-> Pagination(page, limit, Len(found))]], 200)

\* router.get('/', [...], optionalAuth, ...): a request arrives
ArriveList(r, headers, queries) ==
    /\ app = "secure"
    /\ Idle(r)
    /\ \E h \in headers, qr \in queries :
         reqs' = [reqs EXCEPT ![r] = OptionalAuthSync(NewReq("LIST", h, NoId, qr))]
    /\ UNCHANGED <<app, now, users, posts, nextPost, creator, lastPut, task2Vars, extVars>>

ListRun(r) ==
    /\ app = "secure"
    /\ reqs[r].pc = "read"
    /\ reqs[r].method = "LIST"
    /\ reqs' = [reqs EXCEPT ![r] = ListHandler(reqs[r])]
    /\ UNCHANGED <<app, now, users, posts, nextPost, creator, lastPut, task2Vars, extVars>>

\* router.get('/my', authenticate, [...], ...): a request arrives
ArriveMy(r, headers, queries) ==
    /\ app = "secure"
    /\ Idle(r)
    /\ \E h \in headers, qr \in queries :
         reqs' = [reqs EXCEPT ![r] = AuthenticateSync(NewReq("MY", h, NoId, qr))]
    /\ UNCHANGED <<app, now, users, posts, nextPost, creator, lastPut, task2Vars, extVars>>

\* router.get('/my'): the handler, from the validation result to res.json
MyRun(r) ==
    /\ app = "secure"
    /\ reqs[r].pc = "read"
    /\ reqs[r].method = "MY"
    /\ reqs' = [reqs EXCEPT ![r] = MyHandler(reqs[r])]
    /\ UNCHANGED <<app, now, users, posts, nextPost, creator, lastPut, task2Vars, extVars>>

----------------------------------------------------------------------------
(* The environment of the secure-blog API *)

\* Time passes
Tick ==
    /\ now < MaxTime
    /\ now' = now + 1
    /\ UNCHANGED <<app, secureVars, task2Vars, extVars>>

\* A longer time passes: d hours
Elapse(d) ==
    /\ now <= MaxTime
    /\ now' = now + d
    /\ UNCHANGED <<app, secureVars, task2Vars, extVars>>

\* An account registers or logs in and is handed generateToken(user._id)
SecureLogin(u) ==
    /\ app = "secure"
    /\ users[u].exists
    /\ issued' = Record(issued, GenerateToken(u, now), u, "generateToken")
    /\ UNCHANGED <<app, memVars, now, secureVars, task2Vars, plain, limVars, chatVars>>

\* An account is deactivated or reactivated (isActive)
SetActive(u) ==
    /\ app = "secure"
    /\ users[u].exists
    /\ users' = [users EXCEPT ![u].isActive = ~@]
    /\ UNCHANGED <<app, now, posts, nextPost, reqs, creator, lastPut, task2Vars, extVars>>

\* An account is removed from the collection
RemoveAccount(u) ==
    /\ app = "secure"
    /\ users[u].exists
    /\ users' = [users EXCEPT ![u].exists = FALSE]
    /\ UNCHANGED <<app, now, posts, nextPost, reqs, creator, lastPut, task2Vars, extVars>>

----------------------------------------------------------------------------
(* express-blog API (task2): accounts, auth middleware, auth routes *)

\* process.env.JWT_SECRET || 'your-secret-key'
T2Secret == JWT_SECRET

\* One secret for both kinds of token
T2RefreshSecret_SameAsAccess == T2Secret

\* process.env.JWT_REFRESH_SECRET || 'your-refresh-secret'
T2RefreshSecret == "JWT_REFRESH_SECRET"

\* Token lifetimes, in hours (the unit of the clock)
RegisterTtl == 24
AccessTtl == 1
RefreshTtl == 168

\* ObjectIds are allocated in this order and never reused
IdOrder == <<"u1", "u2", "adm">>

\* The value of a password path: a text and the number of times bcrypt.hash
\* has been applied to it
Plain(text) == [text |-> text, rounds |-> 0]

NoAccount == [state |-> "free", username |-> "", email |-> "", password |-> Plain(""),
              role |-> "user"]

Present(u) == t2users[u].state = "present"

\* User.findById(id)
T2FindUser(u) == IF Present(u) THEN t2users[u] ELSE NoAccount

\* bcrypt.hash(plain, salt) and bcrypt.compare(candidate, hash)
Hash(value) == [value EXCEPT !.rounds = @ + 1]
Compare(candidate, hash) == hash = Hash(Plain(candidate))

\* A pre-save hook that hashes on every save
PreSave_AlwaysHash(doc, modified) == [doc EXCEPT !.password = Hash(@)]

\* userSchema.pre('save'): the password is hashed when its path is modified
PreSave(doc, modified) ==
    IF "password" \notin modified THEN doc
    ELSE [doc EXCEPT !.password = Hash(@)]

\* validator's normalizeEmail() on the addresses of the model
NormalizeEmail(email) == IF email = "A@x.io" THEN "a@x.io" ELSE email

RegBody(n, e, pw, pc) ==
    [username |-> n, email |-> e, password |-> pw, passwordConfirm |-> pc]

UsernameMin == 3
PasswordMin == 8

\* The validation chain of router.post('/register')
RegisterValid(b) ==
    /\ Len(b.username) >= UsernameMin
    /\ Len(b.password) >= PasswordMin
    /\ b.passwordConfirm = b.password

\* String.prototype.replace('Bearer ', ''): the first occurrence is removed,
\* wherever it is
RECURSIVE ReplaceBearer(_)
ReplaceBearer(chunks) ==
    IF chunks = <<>> THEN <<>>
    ELSE IF Head(chunks) = Bearer THEN Tail(chunks)
    ELSE <<Head(chunks)>> \o ReplaceBearer(Tail(chunks))

\* What runs when auth / optionalAuth call next(): the route's handler, up to
\* its first awaited operation.  optionalAuth is mounted on no route of the
\* sources: its request is handed downstream and leaves the model.
T2AfterAuth(q) ==
    IF q.method = "ME" THEN [q EXCEPT !.pc = "me", !.ran = TRUE]
    ELSE [q EXCEPT !.pc = "next", !.ran = TRUE]

\* auth, from the header to the awaited User.findById
T2AuthSync(q) ==
    LET token == IF q.hdr.present THEN ReplaceBearer(q.hdr.chunks) ELSE <<>> IN
    IF token = <<>> THEN Respond(q, 401)
    ELSE LET decoded == JwtVerify(token, T2Secret, now) IN
         IF decoded.ok THEN [q EXCEPT !.pc = "auth", !.decoded = decoded.userId]
         ELSE Respond(q, 401)

\* auth, from the result of User.findById on
T2AuthLookup(q, dbError) ==
    IF dbError THEN Respond([q EXCEPT !.dbError = TRUE], 401)
    ELSE IF ~Present(q.decoded) THEN Respond(q, 401)
    ELSE T2AfterAuth([q EXCEPT !.user = [id |-> q.decoded,
                                         role |-> t2users[q.decoded].role],
                               !.nexts = @ + 1])

\* optionalAuth, from the header to the awaited User.findById
T2OptionalAuthSync(q) ==
    LET token == IF q.hdr.present THEN ReplaceBearer(q.hdr.chunks) ELSE <<>> IN
    IF token = <<>> THEN T2AfterAuth([q EXCEPT !.nexts = @ + 1])
    ELSE LET decoded == JwtVerify(token, T2Secret, now) IN
         IF decoded.ok THEN [q EXCEPT !.pc = "auth", !.decoded = decoded.userId]
         ELSE T2AfterAuth([q EXCEPT !.nexts = @ + 1])

\* optionalAuth, from the result of User.findById on
T2OptionalAuthLookup(q, dbError) ==
    IF dbError THEN T2AfterAuth([q EXCEPT !.dbError = TRUE, !.nexts = @ + 1])
    ELSE IF ~Present(q.decoded) THEN T2AfterAuth([q EXCEPT !.nexts = @ + 1])
    ELSE T2AfterAuth([q EXCEPT !.user = [id |-> q.decoded,
                                         role |-> t2users[q.decoded].role],
                               !.nexts = @ + 1])

T2Idle(r) == t2reqs[r].pc \in {"idle", "done", "next"}

\* router.get('/me', auth, ...): a request arrives
T2ArriveMe(r, headers) ==
    /\ app = "task2"
    /\ T2Idle(r)
    /\ \E h \in headers :
         t2reqs' = [t2reqs EXCEPT ![r] = T2AuthSync(NewReq("ME", h, NoId, EmptyBody))]
    /\ UNCHANGED <<app, now, secureVars, extVars, t2users, t2posts, t2next>>

\* A request arrives at a route that mounts optionalAuth
T2ArriveOptional(r, headers) ==
    /\ app = "task2"
    /\ T2Idle(r)
    /\ \E h \in headers :
         t2reqs' = [t2reqs EXCEPT
                      ![r] = T2OptionalAuthSync(NewReq("OPT", h, NoId, EmptyBody))]
    /\ UNCHANGED <<app, now, secureVars, extVars, t2users, t2posts, t2next>>

\* auth resumes with the result of User.findById
T2AuthResume(r, dbErrors) ==
    /\ app = "task2"
    /\ t2reqs[r].pc = "auth"
    /\ t2reqs[r].method = "ME"
    /\ \E e \in dbErrors :
         t2reqs' = [t2reqs EXCEPT ![r] = T2AuthLookup(t2reqs[r], e)]
    /\ UNCHANGED <<app, now, secureVars, extVars, t2users, t2posts, t2next>>

\* optionalAuth resumes with the result of User.findById
T2OptionalAuthResume(r, dbErrors) ==
    /\ app = "task2"
    /\ t2reqs[r].pc = "auth"
    /\ t2reqs[r].method = "OPT"
    /\ \E e \in dbErrors :
         t2reqs' = [t2reqs EXCEPT ![r] = T2OptionalAuthLookup(t2reqs[r], e)]
    /\ UNCHANGED <<app, now, secureVars, extVars, t2users, t2posts, t2next>>

\* userSchema.methods.toJSON: the document without its password
\* this.toObject(): the fields of the user document doc with _id id
ToObject(doc, id) ==
    [f \in (DOMAIN doc \ {"state"}) \cup {"id"} |->
        IF f = "id" THEN id ELSE doc[f]]

\* A projection: the document with the selected paths only
Select(doc, fields) == [f \in DOMAIN doc \cap fields |-> doc[f]]

\* A toJSON that returns the object as toObject gives it
ToJSON_KeepPassword(doc, id) == ToObject(doc, id)

ToJSON(doc, id) ==
    LET user == ToObject(doc, id) IN
    [f \in DOMAIN user \ {"password"} |-> user[f]]

\* The tokens of the auth routes: jwt.sign({ userId: user._id }, ...)
RegisterToken(id, t) == JwtSign(id, T2Secret, [expiresIn |-> RegisterTtl], t)
AccessToken(id, t) == JwtSign(id, T2Secret, [expiresIn |-> AccessTtl], t)
RefreshToken(id, t) == JwtSign(id, T2RefreshSecret, [expiresIn |-> RefreshTtl], t)

\* The handler of router.get('/me'): User.findById(req.userId), res.json(user)
T2MeRun(r) ==
    /\ app = "task2"
    /\ t2reqs[r].pc = "me"
    /\ LET q == t2reqs[r] IN
         t2reqs' = [t2reqs EXCEPT
                      ![r] = Respond([q EXCEPT
                                        !.data = IF Present(q.user.id)
                                                 THEN ToJSON(t2users[q.user.id],
                                                             q.user.id)
                                                 ELSE NoUser], 200)]
    /\ UNCHANGED <<app, now, secureVars, extVars, t2users, t2posts, t2next>>

\* router.post('/register'): a request arrives and is validated
T2ArriveRegister(r, bodies) ==
    /\ app = "task2"
    /\ T2Idle(r)
    /\ \E b \in bodies :
         LET clean == [b EXCEPT !.email = NormalizeEmail(b.email)]
             q == [NewReq("REGISTER", HdrAbsent, NoId, clean) EXCEPT !.ran = TRUE]
         IN t2reqs' = [t2reqs EXCEPT
                         ![r] = IF RegisterValid(clean)
                                THEN [q EXCEPT !.pc = "find"]
                                ELSE Respond(q, 400)]
    /\ UNCHANGED <<app, now, secureVars, extVars, t2users, t2posts, t2next>>

\* User.findOne({ $or: [{ email }, { username }] })
ExistingUser(b) ==
    \E u \in Users : /\ Present(u)
                     /\ (t2users[u].email = b.email \/ t2users[u].username = b.username)

\* router.post('/register'), from the result of User.findOne on
T2RegisterFind(r) ==
    /\ app = "task2"
    /\ t2reqs[r].pc = "find"
    /\ t2reqs' = [t2reqs EXCEPT
                    ![r] = IF ExistingUser(t2reqs[r].body)
                           THEN Respond(t2reqs[r], 400)
                           ELSE [t2reqs[r] EXCEPT !.pc = "insert"]]
    /\ UNCHANGED <<app, now, secureVars, extVars, t2users, t2posts, t2next>>

\* The unique indexes of userSchema (username, email) reject the insert
DuplicateKey(b) ==
    \E u \in Users : /\ Present(u)
                     /\ (t2users[u].email = b.email \/ t2users[u].username = b.username)

FreeIds == {i \in 1 .. Len(IdOrder) : t2users[IdOrder[i]].state = "free"}

\* router.post('/register'), await user.save(): the pre-save hook hashes the
\* password, the insert is checked by the unique indexes; then the token is
\* signed and the response sent.  An insert that throws is answered 500.
T2RegisterSave(r) ==
    /\ app = "task2"
    /\ t2reqs[r].pc = "insert"
    /\ FreeIds # {}
    /\ LET q == t2reqs[r]
           id == IdOrder[CHOOSE i \in FreeIds : \A j \in FreeIds : i <= j]
       IN IF DuplicateKey(q.body)
          THEN /\ UNCHANGED <<t2users, issued, plain>>
               /\ t2reqs' = [t2reqs EXCEPT ![r] = Respond(q, 500)]
          ELSE /\ t2users' = [t2users EXCEPT
                                ![id] = PreSave([state |-> "present",
                                                 username |-> q.body.username,
                                                 email |-> q.body.email,
                                                 password |-> Plain(q.body.password),
                                                 role |-> "user"],
                                                {"username", "email", "password"})]
               /\ plain' = [plain EXCEPT ![id] = q.body.password]
               /\ t2reqs' = [t2reqs EXCEPT
                               ![r] = Respond([q EXCEPT
                                   !.decoded = id,
                                   !.data = [user |-> ToJSON(t2users'[id], id),
                                             token |-> RegisterToken(id, now)]], 201)]
               /\ issued' = Record(issued, RegisterToken(id, now), id, "register")
    /\ UNCHANGED <<app, memVars, now, secureVars, t2posts, t2next, limVars, chatVars>>

\* The paths an assignment of changes marks modified: those whose value differs
Modified(doc, changes) == {f \in DOMAIN changes : changes[f] # doc[f]}

NoChange == <<>>

\* A route loads the account, assigns the given paths and awaits user.save():
\* the pre-save hook runs on the modified paths, the unique index on username
\* rejects a taken name
UserSave(u, changes) ==
    /\ app = "task2"
    /\ Present(u)
    /\ \E c \in changes :
         LET modified == Modified(t2users[u], c)
             doc == [f \in DOMAIN t2users[u] |->
                       IF f \in DOMAIN c THEN c[f] ELSE t2users[u][f]]
             taken == /\ "username" \in modified
                      /\ \E v \in Users \ {u} :
                             Present(v) /\ t2users[v].username = c.username
         IN IF taken THEN UNCHANGED <<t2users, plain>>
            ELSE /\ t2users' = [t2users EXCEPT ![u] = PreSave(doc, modified)]
                 /\ plain' = [plain EXCEPT
                                ![u] = IF "password" \in modified
                                       THEN c.password.text ELSE @]
    /\ UNCHANGED <<app, memVars, now, secureVars, t2posts, t2next, t2reqs, issued,
                   limVars, chatVars>>

LogBody(e, pw) == [email |-> e, password |-> pw]

\* The validation chain of router.post('/login')
LoginValid(b) == b.password # Undefined

\* User.findOne({ email })
T2FindByEmail(email) ==
    IF \E u \in Users : Present(u) /\ t2users[u].email = email
    THEN CHOOSE u \in Users : Present(u) /\ t2users[u].email = email
    ELSE ""

\* router.post('/login'): validation, User.findOne, comparePassword, the two
\* tokens, the response
T2Login(r, bodies, dbErrors) ==
    /\ app = "task2"
    /\ T2Idle(r)
    /\ \E b \in bodies, e \in dbErrors :
         LET clean == [b EXCEPT !.email = NormalizeEmail(b.email)]
             q == [NewReq("LOGIN", HdrAbsent, NoId, clean)
                     EXCEPT !.ran = TRUE, !.dbError = e]
             u == T2FindByEmail(clean.email)
         IN IF ~LoginValid(clean)
            THEN /\ t2reqs' = [t2reqs EXCEPT
                      ![r] = Respond([q EXCEPT !.dbError = FALSE], 400)]
                 /\ issued' = issued
            ELSE IF e
            THEN /\ t2reqs' = [t2reqs EXCEPT ![r] = Respond(q, 500)]
                 /\ issued' = issued
            ELSE IF u = "" \/ ~Compare(clean.password, t2users[u].password)
            THEN /\ t2reqs' = [t2reqs EXCEPT ![r] = Respond(q, 401)]
                 /\ issued' = issued
            ELSE /\ t2reqs' = [t2reqs EXCEPT
                      ![r] = Respond([q EXCEPT
                                 !.decoded = u,
                                 !.data = [access |-> AccessToken(u, now),
                                           refresh |-> RefreshToken(u, now),
                                           user |-> ToJSON(t2users[u], u)]], 200)]
                 /\ issued' = Record(Record(issued, AccessToken(u, now), u, "login"),
                                     RefreshToken(u, now), u, "loginRefresh")
    /\ UNCHANGED <<app, memVars, now, secureVars, t2users, t2posts, t2next, plain,
                   limVars, chatVars>>

NoToken == <<>>

\* router.post('/refresh'): the token of the body is verified with the
\* refresh secret, the account looked up, a new access token signed.  Every
\* error is answered 401.
T2Refresh(r, tokens, dbErrors) ==
    /\ app = "task2"
    /\ T2Idle(r)
    /\ \E token \in tokens, e \in dbErrors :
         LET q == [NewReq("REFRESH", HdrAbsent, NoId, [refresh |-> token])
                     EXCEPT !.ran = TRUE]
             decoded == JwtVerify(token, T2RefreshSecret, now)
         IN IF token = NoToken
            THEN /\ t2reqs' = [t2reqs EXCEPT ![r] = Respond(q, 400)]
                 /\ issued' = issued
            ELSE IF ~decoded.ok \/ e \/ ~Present(decoded.userId)
            THEN /\ t2reqs' = [t2reqs EXCEPT
                      ![r] = Respond([q EXCEPT !.dbError = decoded.ok /\ e], 401)]
                 /\ issued' = issued
            ELSE /\ t2reqs' = [t2reqs EXCEPT
                      ![r] = Respond([q EXCEPT
                                 !.decoded = decoded.userId,
                                 !.data = [access |->
                                             AccessToken(decoded.userId, now)]], 200)]
                 /\ issued' = Record(issued, AccessToken(decoded.userId, now),
                                     decoded.userId, "refresh")
    /\ UNCHANGED <<app, memVars, now, secureVars, t2users, t2posts, t2next, plain,
                   limVars, chatVars>>

\* An account is removed from the collection
T2RemoveAccount(u) ==
    /\ app = "task2"
    /\ Present(u)
    /\ t2users' = [t2users EXCEPT ![u] = [NoAccount EXCEPT !.state = "removed"]]
    /\ UNCHANGED <<app, now, secureVars, extVars, t2posts, t2next, t2reqs>>

----------------------------------------------------------------------------
(* express-blog API (task2): the posts router, which mounts no middleware *)

T2Body(t, a, st) == [title |-> t, author |-> a, status |-> st]

T2PostFields == {"title", "author", "status"}

\* new Post(req.body) and the schema's validation: title and author required,
\* status one of the enum.  (slug and content are taken as given and fresh.)
T2CreateValid(b) ==
    /\ b.title # Undefined
    /\ b.author # Undefined
    /\ b.status # Undefined => b.status \in Statuses

\* postSchema.pre('save') of the express-blog post model
T2PreSave(doc, t) ==
    [doc EXCEPT !.publishedAt =
        IF doc.status = "published" /\ @ = {} THEN {t} ELSE @]

\* The document post.save() inserts: schema defaults, then the pre-save hook
\* that stamps publishedAt
T2NewPost(b) ==
    LET status == IF b.status = Undefined THEN "draft" ELSE b.status IN
    T2PreSave([author |-> b.author, title |-> b.title, status |-> status,
               viewsCount |-> 0, publishedAt |-> {}], now)

\* Post.findByIdAndUpdate(id, req.body, { new: true }): a $set of the body's
\* fields, without validation and without the save hooks
T2Update(post, b) ==
    [post EXCEPT !.title = IF b.title # Undefined THEN b.title ELSE @,
                 !.author = IF b.author # Undefined THEN b.author ELSE @,
                 !.status = IF b.status # Undefined THEN b.status ELSE @]

\* router.post('/'): create
T2PostCreate(r, headers, bodies) ==
    /\ app = "task2"
    /\ T2Idle(r)
    /\ t2next <= MaxPosts
    /\ \E h \in headers, b \in bodies :
         LET q == [NewReq("T2POST", h, NoId, b) EXCEPT !.ran = TRUE] IN
         IF T2CreateValid(b)
         THEN /\ t2posts' = [t2posts EXCEPT ![t2next] = T2NewPost(b)]
              /\ t2next' = t2next + 1
              /\ t2reqs' = [t2reqs EXCEPT
                              ![r] = Respond([q EXCEPT !.pid = t2next,
                                                       !.data = T2NewPost(b)], 201)]
         ELSE /\ UNCHANGED <<t2posts, t2next>>
              /\ t2reqs' = [t2reqs EXCEPT ![r] = Respond(q, 400)]
    /\ UNCHANGED <<app, now, secureVars, extVars, t2users>>

\* router.put('/:id'): update
T2PostUpdate(r, headers, pids, bodies) ==
    /\ app = "task2"
    /\ T2Idle(r)
    /\ \E h \in headers, p \in pids, b \in bodies :
         LET q == [NewReq("T2PUT", h, p, b) EXCEPT !.ran = TRUE] IN
         IF p = MalformedId
         THEN /\ t2posts' = t2posts
              /\ t2reqs' = [t2reqs EXCEPT ![r] = Respond(q, 400)]
         ELSE IF t2posts[p] = NoPost
         THEN /\ t2posts' = t2posts
              /\ t2reqs' = [t2reqs EXCEPT ![r] = Respond(q, 404)]
         ELSE /\ t2posts' = [t2posts EXCEPT ![p] = T2Update(t2posts[p], b)]
              /\ t2reqs' = [t2reqs EXCEPT
                              ![r] = Respond([q EXCEPT
                                                !.data = T2Update(t2posts[p], b)], 200)]
    /\ UNCHANGED <<app, now, secureVars, extVars, t2users, t2next>>

\* router.delete('/:id'): delete
T2PostDelete(r, headers, pids) ==
    /\ app = "task2"
    /\ T2Idle(r)
    /\ \E h \in headers, p \in pids :
         LET q == [NewReq("T2DELETE", h, p, EmptyBody) EXCEPT !.ran = TRUE] IN
         IF p = MalformedId
         THEN /\ t2posts' = t2posts
              /\ t2reqs' = [t2reqs EXCEPT ![r] = Respond(q, 500)]
         ELSE /\ t2posts' = [t2posts EXCEPT ![p] = NoPost]
              /\ t2reqs' = [t2reqs EXCEPT ![r] = Respond(q, 200)]
    /\ UNCHANGED <<app, now, secureVars, extVars, t2users, t2next>>

\* postSchema.methods.incrementViews: this.viewsCount += 1 on the loaded
\* document, which save() then writes
IncrementViews(loaded) == [loaded EXCEPT !.viewsCount = @ + 1]

\* router.get('/:id'): a request arrives; await Post.findById(...).populate(...)
T2GetFind(r, pids) ==
    /\ app = "task2"
    /\ T2Idle(r)
    /\ \E p \in pids :
         LET q == [NewReq("T2GET", HdrAbsent, p, EmptyBody) EXCEPT !.ran = TRUE] IN
         IF t2posts[p] = NoPost
         THEN t2reqs' = [t2reqs EXCEPT ![r] = Respond(q, 404)]
         ELSE /\ t2posts[p].viewsCount < MaxViews
              /\ t2reqs' = [t2reqs EXCEPT
                              ![r] = [q EXCEPT !.pc = "views",
                                               !.resource = t2posts[p]]]
    /\ UNCHANGED <<app, now, secureVars, extVars, t2users, t2posts, t2next>>

\* router.get('/:id'): await post.incrementViews(), respond.  save() writes
\* the modified paths of the loaded document; it throws when the document
\* has been deleted since.
T2GetSave(r) ==
    /\ app = "task2"
    /\ t2reqs[r].pc = "views"
    /\ LET q == t2reqs[r]
           stored == t2posts[q.pid]
       IN IF stored = NoPost
          THEN /\ t2reqs' = [t2reqs EXCEPT ![r] = Respond(q, 500)]
               /\ UNCHANGED t2posts
          ELSE LET doc == T2PreSave(IncrementViews(q.resource), now)
                   dirty == DirtyPaths(q.resource, doc)
               IN /\ t2posts' = [t2posts EXCEPT
                                    ![q.pid] = SaveInto(stored, doc, dirty)]
                  /\ t2reqs' = [t2reqs EXCEPT
                                  ![r] = Respond([q EXCEPT !.data = doc], 200)]
    /\ UNCHANGED <<app, now, secureVars, extVars, t2users, t2next>>

\* req.query of the express-blog GET /: the filters
T2Query(a, st) == [author |-> a, status |-> st]

\* query.where('author').equals(...), .where('status').equals(...)
T2Matches(post, qr) ==
    /\ qr.author # Undefined => post.author = qr.author
    /\ qr.status # Undefined => post.status = qr.status

RECURSIVE T2Found(_, _)
\* Post.find() with the filters, .sort({ createdAt: -1 }): the ids among
\* 1 .. n, the latest first
T2Found(n, qr) ==
    IF n = 0 THEN <<>>
    ELSE (IF t2posts[n] # NoPost /\ T2Matches(t2posts[n], qr) THEN <<n>> ELSE <<>>)
         \o T2Found(n - 1, qr)

\* .populate('author', 'username email'), as res.json serializes it: the
\* selected paths of the account through its toJSON, null when it is missing
T2Populate(post) ==
    [post EXCEPT !.author =
        IF @ \in Users /\ Present(@)
        THEN ToJSON(Select(t2users[@], {"username", "email"}), @)
        ELSE [none |-> TRUE]]

\* The text of the exception a failing query throws
ErrMessage == "MongoServerSelectionError: connect ECONNREFUSED"

\* router.get('/') of the express-blog posts: find, populate, sort, and the
\* array as the response; an exception is answered 500 with its message
T2PostList(r, queries, dbErrors) ==
    /\ app = "task2"
    /\ T2Idle(r)
    /\ \E qr \in queries, e \in dbErrors :
         LET q == [NewReq("T2LIST", HdrAbsent, NoId, qr)
                     EXCEPT !.ran = TRUE, !.dbError = e]
             ids == T2Found(MaxPosts, qr)
         IN t2reqs' = [t2reqs EXCEPT ![r] =
                IF e THEN Respond([q EXCEPT !.data = [message |-> ErrMessage]], 500)
                ELSE Respond([q EXCEPT
                        !.data = [i \in 1 .. Len(ids) |->
                                    [id |-> ids[i],
                                     post |-> T2Populate(t2posts[ids[i]])]]], 200)]
    /\ UNCHANGED <<app, now, secureVars, extVars, t2users, t2posts, t2next>>

----------------------------------------------------------------------------
(* The global rate limiter of the secure-blog API *)

IPs == {"ip1", "ip2"}

GlobalMax == 100
DefaultStatus == 200
TooMany == 429

\* skip: (req, res) => res.statusCode < 400
Skip(statusCode) == statusCode < 400

\* The middleware rateLimit({...}) returns, for a request of ip: a skipped
\* request goes downstream uncounted; a counted one goes downstream unless
\* the count exceeds max, and is answered 429 otherwise.  The response still
\* has its default status when the middleware runs.
GlobalLimiter(ip) ==
    IF Skip(DefaultStatus) THEN [next |-> TRUE, hits |-> hits[ip]]
    ELSE [next |-> hits[ip] + 1 <= GlobalMax, hits |-> hits[ip] + 1]

\* app.use(globalLimiter) and the rest of the chain: a request of ip is
\* served with the status its route gives it, or rejected by the limiter
LimRequest(ip, outcomes) ==
    /\ app = "secure"
    /\ served[ip] < MaxServed
    /\ \E code \in outcomes :
         LET m == GlobalLimiter(ip) IN
         /\ hits' = [hits EXCEPT ![ip] = m.hits]
         /\ served' = [served EXCEPT ![ip] = IF m.next THEN @ + 1 ELSE @]
         /\ lastCode' = [lastCode EXCEPT ![ip] = IF m.next THEN code ELSE TooMany]
    /\ UNCHANGED <<app, memVars, now, secureVars, task2Vars, issued, plain, chatVars>>

\* windowMs passes: the store forgets its counts
WindowExpire ==
    /\ app = "secure"
    /\ hits' = [ip \in IPs |-> 0]
    /\ served' = [ip \in IPs |-> 0]
    /\ UNCHANGED <<app, memVars, now, secureVars, task2Vars, issued, plain, chatVars,
                   lastCode>>

----------------------------------------------------------------------------
(* The posts router that keeps its posts in an array of the process *)

MemBody(title, content) == [title |-> title, content |-> content]

NoResponse == [method |-> "NONE", id |-> NoId, status |-> 0, data |-> NoPost]
Response(method, id, status, data) ==
    [method |-> method, id |-> id, status |-> status, data |-> data]

\* value || fallback on the strings of a body: undefined and the empty string
\* are falsy
OrElse(value, fallback) ==
    IF value = Undefined \/ value = "" THEN fallback ELSE value

\* posts.find(p => p.id === id): the index of the first post with the id, 0
\* when there is none
Find(array, id) ==
    IF \E i \in 1 .. Len(array) : array[i].id = id
    THEN CHOOSE i \in 1 .. Len(array) :
             /\ array[i].id = id
             /\ \A j \in 1 .. (i - 1) : array[j].id # id
    ELSE 0

\* A filter that keeps only the posts with the id
Without_KeepOnly(array, id) == SelectSeq(array, LAMBDA p : p.id = id)

\* posts.filter(p => p.id !== id)
Without(array, id) == SelectSeq(array, LAMBDA p : p.id # id)

\* router.post('/'): uuidv4() hands out an id it has not handed out before
MemPost(bodies) ==
    /\ app = "memory"
    /\ memNext <= MaxPosts
    /\ \E b \in bodies :
         LET newPost == [id |-> memNext, title |-> b.title,
                         content |-> b.content, createdAt |-> now]
         IN /\ memPosts' = Append(memPosts, newPost)
            /\ memRes' = Response("POST", memNext, 201, newPost)
    /\ memNext' = memNext + 1
    /\ memLive' = memLive \cup {memNext}
    /\ UNCHANGED <<app, now, secureVars, task2Vars, issued, plain, limVars,
                   chatVars>>

\* router.get('/:id')
MemGet(ids) ==
    /\ app = "memory"
    /\ \E id \in ids :
         LET i == Find(memPosts, id) IN
         memRes' = IF i = 0 THEN Response("GET", id, 404, NoPost)
                   ELSE Response("GET", id, 200, memPosts[i])
    /\ UNCHANGED <<app, now, secureVars, task2Vars, issued, plain, limVars,
                   chatVars, memPosts, memNext, memLive>>

\* router.put('/:id'): the post found is changed in place
MemPut(ids, bodies) ==
    /\ app = "memory"
    /\ \E id \in ids, b \in bodies :
         LET i == Find(memPosts, id) IN
         IF i = 0
         THEN /\ memRes' = Response("PUT", id, 404, NoPost)
              /\ memPosts' = memPosts
         ELSE LET post == [memPosts[i] EXCEPT
                             !.title = OrElse(b.title, @),
                             !.content = OrElse(b.content, @)]
              IN /\ memPosts' = [memPosts EXCEPT ![i] = post]
                 /\ memRes' = Response("PUT", id, 200, post)
    /\ UNCHANGED <<app, now, secureVars, task2Vars, issued, plain, limVars,
                   chatVars, memNext, memLive>>

\* router.delete('/:id')
MemDelete(ids) ==
    /\ app = "memory"
    /\ \E id \in ids :
         /\ memPosts' = Without(memPosts, id)
         /\ memRes' = Response("DELETE", id, 200, NoPost)
         /\ memLive' = memLive \ {id}
    /\ UNCHANGED <<app, now, secureVars, task2Vars, issued, plain, limVars,
                   chatVars, memNext>>

----------------------------------------------------------------------------
(* The chat relay *)

Sockets == {"s1", "s2"}

\* let chatHistory = {}: an object without own keys.  A key it does not own
\* is looked up in Object.prototype.
EmptyObject == [k \in {} |-> <<>>]
ProtoKeys == {"constructor"}

\* chatHistory[room]: the array stored under an own key, the inherited
\* property, or undefined
Get(obj, key) ==
    IF key \in DOMAIN obj THEN [kind |-> "array", val |-> obj[key]]
    ELSE IF key \in ProtoKeys THEN [kind |-> "inherited", val |-> <<>>]
    ELSE [kind |-> "undefined", val |-> <<>>]

\* A test that no value passes
Truthy_Never(v) == FALSE

\* if (value): every value but undefined is truthy here (an array, also an
\* empty one, and an inherited function)
Truthy(v) == v.kind # "undefined"

JoinEvent(room) == [type |-> "joinRoom", room |-> room]
MessageEvent(room, user, text) ==
    [type |-> "message", room |-> room, user |-> user, text |-> text]

\* Array.prototype.unshift in the place of push
Push_Front(array, msg) == <<msg>> \o array

\* chatHistory[room].push(msg)
Push(array, msg) == Append(array, msg)

\* io.to(room): the connected sockets that are in the room
InRoom(room) == {t \in Sockets : socks[t].connected /\ room \in socks[t].rooms}

\* io.on("connection", ...): a client connects; its socket is in the room of
\* its own id.  (A socket id is used for one connection.)
Connect(s) ==
    /\ app = "chat"
    /\ chatUp
    /\ ~socks[s].connected /\ ~socks[s].closed
    /\ socks' = [socks EXCEPT ![s].connected = TRUE, ![s].rooms = {s}]
    /\ UNCHANGED <<app, memVars, now, secureVars, task2Vars, issued, plain, limVars,
                   chatUp, wire, chatHistory, inbox, relayed, emitted>>

\* The client of s emits "joinRoom"
ClientJoin(s, rooms) ==
    /\ app = "chat"
    /\ socks[s].connected
    /\ Len(wire[s]) < MaxWire
    /\ \E room \in rooms \ socks[s].rooms :
         /\ \A i \in 1 .. Len(wire[s]) : wire[s][i] # JoinEvent(room)
         /\ wire' = [wire EXCEPT ![s] = Append(@, JoinEvent(room))]
    /\ UNCHANGED <<app, memVars, now, secureVars, task2Vars, issued, plain, limVars,
                   chatUp, socks, chatHistory, inbox, relayed, emitted>>

\* The client of s emits "message"; its text numbers the messages sent
ClientSend(s, rooms) ==
    /\ app = "chat"
    /\ socks[s].connected
    /\ Len(wire[s]) < MaxWire
    /\ emitted < MaxMsgs
    /\ \E room \in rooms :
         wire' = [wire EXCEPT ![s] = Append(@, MessageEvent(room, s, emitted + 1))]
    /\ emitted' = emitted + 1
    /\ UNCHANGED <<app, memVars, now, secureVars, task2Vars, issued, plain, limVars,
                   chatUp, socks, chatHistory, inbox, relayed>>

\* socket.on("joinRoom", ...), run to completion
OnJoinRoom(s, room) ==
    LET stored == Get(chatHistory, room) IN
    /\ socks' = [socks EXCEPT ![s].rooms = @ \cup {room}]
    /\ inbox' = [inbox EXCEPT
                   ![s] = IF Truthy(stored)
                          THEN Append(@, [type |-> "history", payload |-> stored])
                          ELSE @]
    /\ UNCHANGED <<chatUp, chatHistory, relayed>>

\* socket.on("message", ...), run to completion.  push on the inherited
\* property is not a function: the TypeError leaves the listener uncaught
\* and ends the process.
OnMessage(s, ev) ==
    LET msg == [user |-> ev.user, text |-> ev.text, timestamp |-> now]
        stored == Get(chatHistory, ev.room)
    IN /\ relayed' = Append(relayed, [room |-> ev.room, msg |-> msg])
       /\ IF stored.kind = "inherited"
          THEN /\ chatUp' = FALSE
               /\ socks' = [t \in Sockets |->
                               [connected |-> FALSE, closed |-> TRUE, rooms |-> {}]]
               /\ UNCHANGED <<chatHistory, inbox>>
          ELSE /\ chatHistory' = (ev.room :> Push(stored.val, msg)) @@ chatHistory
               /\ inbox' = [t \in Sockets |->
                               IF t \in InRoom(ev.room)
                               THEN Append(inbox[t], [type |-> "message", msg |-> msg])
                               ELSE inbox[t]]
               /\ UNCHANGED <<chatUp, socks>>

\* The server handles the next event of socket s
Handle(s) ==
    /\ app = "chat"
    /\ chatUp
    /\ socks[s].connected
    /\ wire[s] # <<>>
    /\ LET ev == Head(wire[s]) IN
         IF ev.type = "joinRoom" THEN OnJoinRoom(s, ev.room) ELSE OnMessage(s, ev)
    /\ wire' = [wire EXCEPT ![s] = Tail(@)]
    /\ UNCHANGED <<app, memVars, now, secureVars, task2Vars, issued, plain, limVars,
                   emitted>>

\* socket.on("disconnect", ...): the socket leaves its rooms; what it had in
\* flight is gone
Disconnect(s) ==
    /\ app = "chat"
    /\ socks[s].connected
    /\ socks' = [socks EXCEPT
                   ![s] = [connected |-> FALSE, closed |-> TRUE, rooms |-> {}]]
    /\ wire' = [wire EXCEPT ![s] = <<>>]
    /\ UNCHANGED <<app, memVars, now, secureVars, task2Vars, issued, plain, limVars,
                   chatUp, chatHistory, inbox, relayed, emitted>>

----------------------------------------------------------------------------
(* Initial state *)

InitLimiter ==
    /\ hits = [ip \in IPs |-> 0]
    /\ served = [ip \in IPs |-> 0]
    /\ lastCode = [ip \in IPs |-> 0]

InitMemory ==
    /\ memPosts = <<>>
    /\ memNext = 1
    /\ memRes = NoResponse
    /\ memLive = {}

InitChat ==
    /\ chatUp = TRUE
    /\ socks = [s \in Sockets |->
                  [connected |-> FALSE, closed |-> FALSE, rooms |-> {}]]
    /\ wire = [s \in Sockets |-> <<>>]
    /\ chatHistory = EmptyObject
    /\ inbox = [s \in Sockets |-> <<>>]
    /\ relayed = <<>>
    /\ emitted = 0

Account(role) == [exists |-> TRUE, role |-> role, isActive |-> TRUE]

InitSecure ==
    /\ users = [u \in Users |-> Account(IF u = "adm" THEN "admin" ELSE "user")]
    /\ posts = [p \in PostIds |-> NoPost]
    /\ nextPost = 1
    /\ reqs = [r \in Slots |-> IdleReq]
    /\ creator = [p \in PostIds |-> ""]
    /\ lastPut = [p \in PostIds |-> NoPut]

InitTask2 ==
    /\ t2users = [u \in Users |-> NoAccount]
    /\ t2posts = [p \in PostIds |-> NoPost]
    /\ t2next = 1
    /\ t2reqs = [r \in Slots |-> IdleReq]
    /\ issued = {}
    /\ plain = [u \in Users |-> ""]
    /\ InitLimiter
    /\ InitChat
    /\ InitMemory

Init ==
    /\ app = "secure"
    /\ now = 0
    /\ InitSecure
    /\ InitTask2

----------------------------------------------------------------------------
(* The secure-blog posts API serving one request at a time, with a working
   database and tokens the server issued *)

Ok == {FALSE}
OkOrError == {FALSE, TRUE}

U == Undefined
Content == "0123456789"

CreateBodies ==
    {Body("Hello", Content, U, NoTags),
     Body(" Hi ", Content, U, NoTags)}

UpdateBodies ==
    {Body(" World ", U, U, NoTags),
     Body(U, "short", U, NoTags)}

PidInputs == PostIds \cup {MalformedId}

\* Whether the client has used up the post creations of its window
Limits == {FALSE, TRUE}

Next ==
    \/ ArrivePut(1, IssuedHeaders, PidInputs, UpdateBodies)
    \/ ArriveDelete(1, IssuedHeaders, PidInputs)
    \/ ArrivePost(1, IssuedHeaders, CreateBodies, Limits)
    \/ ArriveGet(1, IssuedHeaders, PidInputs)
    \/ AuthenticateResume(1, Ok)
    \/ OptionalAuthResume(1, Ok)
    \/ OwnershipResume(1, Ok)
    \/ PutSave(1)
    \/ DeleteRun(1)
    \/ PostSave(1)
    \/ GetRun(1)

Spec == Init /\ [][Next]_vars

----------------------------------------------------------------------------
(* The authentication middleware of both applications, under every shape of
   header, a database that may fail, passing time and changing accounts *)

(* The secure-blog posts API end to end: account u1 creates posts, and any
   account or an anonymous client then updates, deletes and reads them *)

OwnerHeaders == {Hdr(<<Bearer, Jwt("u1", JWT_SECRET, MaxTime + 1)>>)}

E2ECreateBodies == {Body("Hello", Content, U, NoTags)}

E2EUpdateBodies ==
    {Body(" World ", U, U, NoTags),
     Body(U, U, "archived", Tags(<<" ", "JS", " js">>))}

NextE2E ==
    \/ ArrivePost(1, OwnerHeaders, E2ECreateBodies, {FALSE})
    \/ ArrivePut(1, IssuedHeaders, PostIds, E2EUpdateBodies)
    \/ ArriveDelete(1, IssuedHeaders, PostIds)
    \/ ArriveGet(1, IssuedHeaders, PostIds)
    \/ AuthenticateResume(1, Ok)
    \/ OptionalAuthResume(1, Ok)
    \/ OwnershipResume(1, Ok)
    \/ PutSave(1)
    \/ DeleteRun(1)
    \/ PostSave(1)
    \/ GetRun(1)

SpecE2E == Init /\ [][NextE2E]_vars

----------------------------------------------------------------------------
AuthUsers == {"u1", "adm"}

AuthJwts ==
    {Jwt(u, JWT_SECRET, e) : u \in AuthUsers, e \in {1, MaxTime + 1}}
    \cup {Jwt("u1", OtherKey, MaxTime + 1)}

AuthHeaders == AllHeaders(AuthJwts)

\* A body without a title: the route handler answers 400 once the
\* middleware has let the request through, and the store stays empty
AuthBodies == {Body(U, Content, "draft", NoTags)}

RegBodies ==
    {RegBody("ann", "a@x.io", "password1", "password1"),
     RegBody("bob", "A@x.io", "password1", "password1"),
     RegBody("bob", "b@x.io", "password1", "password1"),
     RegBody("ann", "b@x.io", "password1", "password2")}

InitAuth ==
    /\ app \in {"secure", "task2"}
    /\ now = 0
    /\ InitSecure
    /\ InitTask2

NextAuth ==
    \/ ArrivePost(1, AuthHeaders, AuthBodies, Limits)
    \/ ArriveGet(1, AuthHeaders, {1})
    \/ AuthenticateResume(1, OkOrError)
    \/ OptionalAuthResume(1, OkOrError)
    \/ GetRun(1)
    \/ Tick
    \/ \E u \in AuthUsers : SetActive(u)
    \/ \E u \in AuthUsers : RemoveAccount(u)
    \/ T2ArriveMe(1, AuthHeaders)
    \/ T2ArriveOptional(1, AuthHeaders)
    \/ T2AuthResume(1, OkOrError)
    \/ T2OptionalAuthResume(1, OkOrError)
    \/ T2MeRun(1)
    \/ T2ArriveRegister(1, RegBodies)
    \/ T2RegisterFind(1)
    \/ T2RegisterSave(1)
    \/ \E u \in AuthUsers : T2RemoveAccount(u)

SpecAuth == InitAuth /\ [][NextAuth]_vars

----------------------------------------------------------------------------
(* The express-blog API: registration and the posts router, one request at a
   time *)

T2CreateBodies == {T2Body("Hello", "u1", U), T2Body("Hello", "u2", "published")}
T2UpdateBodies == {T2Body("World", U, U), T2Body(U, U, "archived")}

T2Headers == {Hdr(<<Bearer, Jwt(u, T2Secret, MaxTime + 1)>>) : u \in {"u1", "u2"}}

T2RegBodies ==
    {RegBody("ann", "a@x.io", "password1", "password1"),
     RegBody("bob", "b@x.io", "password1", "password1")}

InitT2 ==
    /\ app = "task2"
    /\ now = 0
    /\ InitSecure
    /\ InitTask2

NextT2 ==
    \/ T2PostCreate(1, T2Headers, T2CreateBodies)
    \/ T2PostUpdate(1, T2Headers, PidInputs, T2UpdateBodies)
    \/ T2PostDelete(1, T2Headers, PidInputs)
    \/ T2ArriveRegister(1, T2RegBodies)
    \/ T2RegisterFind(1)
    \/ T2RegisterSave(1)

SpecT2 == InitT2 /\ [][NextT2]_vars

----------------------------------------------------------------------------
(* Visibility of posts: u1 creates and updates posts of every status; the
   owner, another account, an admin, an anonymous client and a client with a
   forged token list and read them *)

VisHeaders ==
    IssuedHeaders
    \cup {Hdr(<<Bearer, Jwt("adm", OtherKey, MaxTime + 1)>>)}

VisCreateBodies ==
    {Body("Hello", Content, "draft", Tags(<<"JS">>)),
     Body("Hello", Content, U, NoTags)}

VisUpdateBodies == {Body(U, U, "archived", NoTags), Body(U, U, "published", NoTags)}

Queries ==
    {Query(NoNum, NoNum, U, U), Query(Num(2), Num(1), U, "u1"),
     Query(NoNum, NoNum, "JS", U), Query(Num(0), NoNum, U, U)}

NextVis ==
    \/ ArrivePost(1, OwnerHeaders, VisCreateBodies, Ok)
    \/ ArrivePut(1, OwnerHeaders, PostIds, VisUpdateBodies)
    \/ ArriveGet(1, VisHeaders, PostIds)
    \/ ArriveList(1, VisHeaders, Queries)
    \/ AuthenticateResume(1, Ok)
    \/ OptionalAuthResume(1, OkOrError)
    \/ OwnershipResume(1, Ok)
    \/ PutSave(1)
    \/ PostSave(1)
    \/ GetRun(1)
    \/ ListRun(1)
    \/ SetActive("adm")

SpecVis == Init /\ [][NextVis]_vars

----------------------------------------------------------------------------
(* The secure-blog posts API while time passes: account u1 creates posts and
   every account sends updates of one, several or no fields *)

RECURSIVE Words(_)
\* A text of n words
Words(n) ==
    IF n = 1 THEN "w"
    ELSE Words(n \div 2) \o " " \o Words(n - (n \div 2))

\* A body that takes more than a minute to read
LongBody == Words(WordsPerMinute + 1)

\* The updates address the first post created
FramePids == {1}

FrameUpdateBodies ==
    {Body(" World ", U, U, NoTags),
     Body(U, LongBody, U, NoTags),
     Body(U, U, "draft", Tags(<<"JS">>)),
     Body(U, "short", U, NoTags),
     EmptyBody}

NextFrame ==
    \/ ArrivePost(1, OwnerHeaders, E2ECreateBodies, {FALSE})
    \/ ArrivePut(1, IssuedHeaders, FramePids, FrameUpdateBodies)
    \/ AuthenticateResume(1, Ok)
    \/ OwnershipResume(1, Ok)
    \/ PutSave(1)
    \/ PostSave(1)
    \/ Tick

SpecFrame == Init /\ [][NextFrame]_vars

----------------------------------------------------------------------------
(* The secure-blog posts API serving two requests at once: account u1
   creates posts, and updates and deletions of them by u1 interleave at
   every await *)

RaceUpdateBodies ==
    {Body(" World ", U, U, NoTags),
     Body(U, U, "archived", NoTags)}

NextRace ==
    \/ ArrivePost(1, OwnerHeaders, E2ECreateBodies, {FALSE})
    \/ \E r \in Slots : ArrivePut(r, OwnerHeaders, FramePids, RaceUpdateBodies)
    \/ ArriveDelete(2, OwnerHeaders, FramePids)
    \/ \E r \in Slots : AuthenticateResume(r, Ok)
    \/ \E r \in Slots : OwnershipResume(r, Ok)
    \/ \E r \in Slots : PutStore(r)
    \/ \E r \in Slots : PutRespond(r)
    \/ DeleteRun(2)
    \/ PostSave(1)

SpecRace == Init /\ [][NextRace]_vars

----------------------------------------------------------------------------
(* The express-blog posts router serving two requests at once: posts are
   created, updated and read, the reads interleaving at their awaits *)

ViewCreateBodies == {T2Body("Hello", "u1", U), T2Body("Hello", "u1", "published")}

ViewUpdateBodies == {T2Body(U, U, "published"), T2Body("World", U, U)}

NextViews ==
    \/ T2PostCreate(1, {HdrAbsent}, ViewCreateBodies)
    \/ T2PostUpdate(1, {HdrAbsent}, PostIds, ViewUpdateBodies)
    \/ \E r \in Slots : T2GetFind(r, PostIds)
    \/ \E r \in Slots : T2GetSave(r)
    \/ Tick

SpecViews == InitT2 /\ [][NextViews]_vars

----------------------------------------------------------------------------
(* The in-memory posts router: posts are created, read, updated and deleted
   by ids that are stored, were deleted, or were never handed out *)

InitMem ==
    /\ app = "memory"
    /\ now = 0
    /\ InitSecure
    /\ InitTask2

MemIds == 1 .. (MaxPosts + 1)

MemBodies == {MemBody("Hello", "text"), MemBody("World", U), MemBody("", "more")}

NextMem ==
    \/ MemPost(MemBodies)
    \/ MemGet(MemIds)
    \/ MemPut(MemIds, MemBodies)
    \/ MemDelete(MemIds)
    \/ Tick

SpecMem == InitMem /\ [][NextMem]_vars

----------------------------------------------------------------------------
(* The chat relay: two clients connect, join rooms, send messages and
   disconnect, their events interleaved *)

Rooms == {"r1", "r2"}

InitRelay ==
    /\ app = "chat"
    /\ now = 0
    /\ InitSecure
    /\ InitTask2

NextChat ==
    \/ \E s \in Sockets : Connect(s)
    \/ \E s \in Sockets : ClientJoin(s, Rooms)
    \/ \E s \in Sockets : ClientSend(s, Rooms)
    \/ \E s \in Sockets : Handle(s)
    \/ \E s \in Sockets : Disconnect(s)

SpecChat == InitRelay /\ [][NextChat]_vars

(* The same, the clients choosing any room name *)

AnyRooms == {"r1"} \cup ProtoKeys

NextRelay ==
    \/ \E s \in Sockets : Connect(s)
    \/ \E s \in Sockets : ClientJoin(s, AnyRooms)
    \/ \E s \in Sockets : ClientSend(s, AnyRooms)
    \/ \E s \in Sockets : Handle(s)
    \/ \E s \in Sockets : Disconnect(s)

SpecRelay == InitRelay /\ [][NextRelay]_vars

----------------------------------------------------------------------------
(* The global rate limiter: clients at two addresses send requests *)

NextLim ==
    \/ \E ip \in IPs : LimRequest(ip, {200, 404})
    \/ WindowExpire

SpecLim == Init /\ [][NextLim]_vars

----------------------------------------------------------------------------
(* Tokens: the sites that issue them, the middlewares that verify them, and
   time passing up to and beyond each lifetime *)

TokUsers == {"u1"}

\* The headers that carry a token the server has issued
TokHeaders == {Hdr(<<Bearer, e.tok>>) : e \in issued}

TokBodies == {Body("Hello", Content, "draft", NoTags)}

TokRegBodies == {RegBody("ann", "a@x.io", "password1", "password1")}

LoginBodies ==
    {LogBody("A@x.io", "password1"), LogBody("a@x.io", "password2"),
     LogBody("b@x.io", "password1"), LogBody("a@x.io", U)}

RefreshInputs == {NoToken} \cup {<<e.tok>> : e \in issued}

Lifetimes == {AccessTtl, RegisterTtl, JWT_EXPIRES_IN}

NextTok ==
    \/ \E u \in TokUsers : SecureLogin(u)
    \/ ArrivePost(1, TokHeaders, TokBodies, Ok)
    \/ AuthenticateResume(1, OkOrError)
    \/ PostSave(1)
    \/ Tick
    \/ \E d \in Lifetimes : Elapse(d)
    \/ \E u \in TokUsers : SetActive(u)
    \/ \E u \in TokUsers : RemoveAccount(u)
    \/ T2ArriveRegister(1, TokRegBodies)
    \/ T2RegisterFind(1)
    \/ T2RegisterSave(1)
    \/ T2Login(1, LoginBodies, OkOrError)
    \/ T2Refresh(1, RefreshInputs, OkOrError)
    \/ T2ArriveMe(1, TokHeaders)
    \/ T2AuthResume(1, OkOrError)
    \/ T2MeRun(1)
    \/ \E u \in TokUsers : T2RemoveAccount(u)

SpecTok == InitAuth /\ [][NextTok]_vars

----------------------------------------------------------------------------
(* The express-blog API: every route that answers with an account or with
   posts that embed one *)

SerRegBodies ==
    {RegBody("ann", "a@x.io", "password1", "password1"),
     RegBody("bob", "b@x.io", "password2", "password2")}

SerLoginBodies ==
    {LogBody("a@x.io", "password1"), LogBody("b@x.io", "password2"),
     LogBody("b@x.io", "password1")}

SerCreateBodies == {T2Body("Hello", "u1", U), T2Body("Hello", "adm", "published")}

Changes == {NoChange, [password |-> Plain("password1")], [username |-> "bob"]}

T2Queries == {T2Query(U, U), T2Query("u1", U), T2Query(U, "published")}

NextSer ==
    \/ T2ArriveRegister(1, SerRegBodies)
    \/ T2RegisterFind(1)
    \/ T2RegisterSave(1)
    \/ T2Login(1, SerLoginBodies, OkOrError)
    \/ T2Refresh(1, RefreshInputs, Ok)
    \/ T2ArriveMe(1, TokHeaders)
    \/ T2AuthResume(1, Ok)
    \/ T2MeRun(1)
    \/ T2PostCreate(1, {HdrAbsent}, SerCreateBodies)
    \/ T2PostList(1, T2Queries, OkOrError)
    \/ \E u \in {"u1", "u2"} : UserSave(u, Changes)

SpecSer == InitT2 /\ [][NextSer]_vars

----------------------------------------------------------------------------
(* The express-blog API: registrations running concurrently *)

NextReg ==
    \/ \E r \in Slots : T2ArriveRegister(r, RegBodies)
    \/ \E r \in Slots : T2RegisterFind(r)
    \/ \E r \in Slots : T2RegisterSave(r)

SpecReg == InitT2 /\ [][NextReg]_vars

----------------------------------------------------------------------------
(* Properties *)

\* The step changes request r of the secure-blog API / of the express-blog API
Moved(r) == reqs'[r] # reqs[r]
T2Moved(r) == t2reqs'[r] # t2reqs[r]

\* The step is the arrival of a request in slot r
Arrives(r) == Moved(r) /\ Idle(r)
T2Arrives(r) == T2Moved(r) /\ T2Idle(r)

Mandatory == {"POST", "PUT", "DELETE"}

\* The account a request is made by: the one named in the token the server
\* issued that the header carries, or "" when it carries none
Requester(h) ==
    IF /\ h.present
       /\ Len(h.chunks) = 2
       /\ h.chunks[1] = Bearer
       /\ h.chunks[2].k = "jwt"
       /\ h.chunks[2].key = JWT_SECRET
    THEN h.chunks[2].userId
    ELSE ""

Exists(p) == p \in PostIds /\ posts[p] # NoPost
T2Exists(p) == p \in PostIds /\ t2posts[p] # NoPost

\* The fields a PUT body gives have the requested values in post
Updated(post, b) ==
    /\ b.title # Undefined => post.title = b.title
    /\ b.body # Undefined => post.body = b.body
    /\ b.status # Undefined => post.status = b.status
    /\ b.tags.given => post.tags = ProcessTags(b.tags.val)

\* C1. For every account with role 'user' and every existing post owned by
\* another account, PUT and DELETE /posts/:id answer 403 and leave the post
\* unchanged; the same request by an admin answers 200 and takes effect.  In
\* both posts routers that have owners: secure-blog and express-blog.
C1_SecureStep(r) ==
    LET q == reqs[r]
        q2 == reqs'[r]
    IN /\ (/\ Moved(r) /\ q.pc = "own" /\ Exists(q.pid)
           /\ q.user.role = "user" /\ posts[q.pid].user # q.user.id)
          => (q2.status = 403 /\ posts' = posts)
       /\ (/\ Moved(r) /\ q.pc = "own" /\ Exists(q.pid)
           /\ q.user.role = "admin"
           /\ (q.method = "PUT" => UpdateValid(q.body)))
          => q2.pc \in {"save", "del"}
       /\ (Moved(r) /\ q.pc = "save" /\ Exists(q.pid))
          => (q2.status = 200 /\ Updated(posts'[q.pid], q.body))
       /\ (Moved(r) /\ q.pc = "del")
          => (q2.status = 200 /\ posts'[q.pid] = NoPost)

C1_Task2Step(r) ==
    LET q2 == t2reqs'[r]
        u == Requester(q2.hdr)
    IN (/\ T2Moved(r) /\ q2.method \in {"T2PUT", "T2DELETE"}
        /\ u # "" /\ Present(u) /\ t2users[u].role = "user"
        /\ T2Exists(q2.pid) /\ t2posts[q2.pid].author # u
        /\ Present(t2posts[q2.pid].author))
       => (q2.status = 403 /\ t2posts' = t2posts)

C1_OwnerOrAdminOnly ==
    [][\A r \in Slots : C1_SecureStep(r) /\ C1_Task2Step(r)]_vars

\* C2. A request to a protected route that carries no Authorization header is
\* answered 401 by the authentication middleware, and the downstream handler
\* is never invoked.
C2_NoHeaderIs401 ==
    \A r \in Slots :
        /\ (reqs[r].method \in Mandatory /\ ~reqs[r].hdr.present)
           => (/\ reqs[r].pc = "done" /\ reqs[r].status = 401
               /\ reqs[r].nexts = 0 /\ ~reqs[r].ran)
        /\ (t2reqs[r].method = "ME" /\ ~t2reqs[r].hdr.present)
           => (/\ t2reqs[r].pc = "done" /\ t2reqs[r].status = 401
               /\ t2reqs[r].nexts = 0 /\ ~t2reqs[r].ran)

C2_Witness ==
    \E r \in Slots :
        /\ reqs[r].method = "POST" /\ ~reqs[r].hdr.present
        /\ reqs[r].status = 401

\* C3. A correctly signed, unexpired token whose account is deactivated when
\* the middleware looks it up is answered 401 and the handler is not invoked,
\* on every request made while the account is deactivated.  (Accounts of the
\* express-blog API have no active flag: none is ever deactivated.)
C3_DeactivatedIs401 ==
    [][\A r \in Slots :
        (/\ Moved(r) /\ reqs[r].pc = "auth" /\ reqs[r].method \in Mandatory
         /\ ~reqs'[r].dbError
         /\ users[reqs[r].decoded].exists
         /\ ~users[reqs[r].decoded].isActive)
        => (/\ reqs'[r].pc = "done" /\ reqs'[r].status = 401
            /\ reqs'[r].nexts = 0 /\ ~reqs'[r].ran)]_vars

C3_Witness ==
    \E r \in Slots :
        /\ reqs[r].method \in Mandatory /\ reqs[r].pc = "done"
        /\ reqs[r].status = 401 /\ reqs[r].decoded # "" /\ ~reqs[r].dbError
        /\ users[reqs[r].decoded].exists
        /\ ~users[reqs[r].decoded].isActive

\* C4. A request whose Authorization header is not 'Bearer <token>' with a
\* non-empty token is answered 401; a header without the 'Bearer ' prefix is
\* never accepted as a credential.
WellFormedHeader(h) == h.present /\ Len(h.chunks) >= 2 /\ h.chunks[1] = Bearer

C4_MalformedIs401 ==
    \A r \in Slots :
        /\ (/\ reqs[r].method \in Mandatory /\ reqs[r].hdr.present
            /\ ~WellFormedHeader(reqs[r].hdr))
           => (/\ reqs[r].pc = "done" /\ reqs[r].status = 401
               /\ reqs[r].nexts = 0)
        /\ (/\ t2reqs[r].method = "ME" /\ t2reqs[r].hdr.present
            /\ ~WellFormedHeader(t2reqs[r].hdr))
           => (/\ t2reqs[r].pc = "done" /\ t2reqs[r].status = 401
               /\ t2reqs[r].nexts = 0)

\* C5. authenticate passes control downstream only if the token's signature
\* verifies, the token is unexpired and the account it names exists and is
\* active, and then attaches exactly that account; an invalid or expired token
\* and an account that is not found are answered 401.
GoodToken(c, secret, t) == c.k = "jwt" /\ c.key = secret /\ t < c.exp

HoldsGoodToken(h, secret, t, u) ==
    \E i \in 1 .. Len(h.chunks) :
        GoodToken(h.chunks[i], secret, t) /\ h.chunks[i].userId = u

C5_SecureStep(r) ==
    LET q == reqs[r]
        q2 == reqs'[r]
    IN /\ (Arrives(r) /\ q2.method \in Mandatory) =>
            /\ q2.pc \in {"auth", "done"}
            /\ q2.nexts = 0
            /\ q2.pc = "auth" => HoldsGoodToken(q2.hdr, JWT_SECRET, now, q2.decoded)
            /\ (~\E u \in Users : HoldsGoodToken(q2.hdr, JWT_SECRET, now, u))
               => (q2.pc = "done" /\ q2.status = 401)
       /\ (Moved(r) /\ q.pc = "auth" /\ q.method \in Mandatory) =>
            /\ q2.nexts = 1 =>
                 /\ users[q.decoded].exists /\ users[q.decoded].isActive
                 /\ q2.user = [id |-> q.decoded, role |-> users[q.decoded].role]
            /\ q2.nexts = 0 => (q2.pc = "done" /\ q2.user = NoUser /\ ~q2.ran)
            /\ (~users[q.decoded].exists /\ ~q2.dbError)
               => (q2.status = 401 /\ q2.nexts = 0)

C5_Task2Step(r) ==
    LET q == t2reqs[r]
        q2 == t2reqs'[r]
    IN /\ (T2Arrives(r) /\ q2.method = "ME") =>
            /\ q2.pc \in {"auth", "done"}
            /\ q2.nexts = 0
            /\ q2.pc = "auth" => HoldsGoodToken(q2.hdr, T2Secret, now, q2.decoded)
            /\ (~\E u \in Users : HoldsGoodToken(q2.hdr, T2Secret, now, u))
               => (q2.pc = "done" /\ q2.status = 401)
       /\ (T2Moved(r) /\ q.pc = "auth" /\ q.method = "ME") =>
            /\ q2.nexts = 1 =>
                 /\ Present(q.decoded)
                 /\ q2.user = [id |-> q.decoded, role |-> t2users[q.decoded].role]
            /\ q2.nexts = 0 => (q2.pc = "done" /\ q2.user = NoUser /\ ~q2.ran)
            /\ ~Present(q.decoded) => (q2.status = 401 /\ q2.nexts = 0)

C5_PassOnlyIfValid ==
    [][\A r \in Slots : C5_SecureStep(r) /\ C5_Task2Step(r)]_vars

C5_Witness ==
    \E r \in Slots :
        /\ reqs[r].method = "POST" /\ reqs[r].nexts = 1
        /\ reqs[r].user = [id |-> "u1", role |-> "user"]
        /\ reqs[r].hdr = Hdr(<<Bearer, Jwt("u1", JWT_SECRET, 1)>>)

\* C6. optionalAuth never rejects: whatever the header, the token, the account
\* and the outcome of the lookup, it sends no response, passes control
\* downstream exactly once, and attaches an account exactly when the mandatory
\* middleware would have let the same request through (and then that account).
C6_SecureStep(r) ==
    LET q == reqs[r]
        q2 == reqs'[r]
    IN /\ (Arrives(r) /\ q2.method = "GET") =>
            LET m == AuthenticateSync(NewReq("GET", q2.hdr, q2.pid, q2.body)) IN
            /\ q2.status = 0
            /\ m.pc = "auth" =>
                 (q2.pc = "auth" /\ q2.nexts = 0 /\ q2.decoded = m.decoded)
            /\ m.pc # "auth" =>
                 (q2.pc = "read" /\ q2.nexts = 1 /\ q2.user = NoUser)
       /\ (Moved(r) /\ q.pc = "auth" /\ q.method = "GET") =>
            LET m == AuthenticateLookup(q, q2.dbError) IN
            /\ q2.status = 0 /\ q2.pc = "read" /\ q2.nexts = 1
            /\ m.nexts = 1 => (q2.user = m.user /\ q2.user # NoUser)
            /\ m.nexts = 0 => q2.user = NoUser
       /\ (Moved(r) /\ q.pc = "read") => (q2.nexts = 1 /\ q2.user = q.user)

C6_Task2Step(r) ==
    LET q == t2reqs[r]
        q2 == t2reqs'[r]
    IN /\ (T2Arrives(r) /\ q2.method = "OPT") =>
            LET m == T2AuthSync(NewReq("OPT", q2.hdr, q2.pid, q2.body)) IN
            /\ q2.status = 0
            /\ m.pc = "auth" =>
                 (q2.pc = "auth" /\ q2.nexts = 0 /\ q2.decoded = m.decoded)
            /\ m.pc # "auth" =>
                 (q2.pc = "next" /\ q2.nexts = 1 /\ q2.user = NoUser)
       /\ (T2Moved(r) /\ q.pc = "auth" /\ q.method = "OPT") =>
            LET m == T2AuthLookup(q, q2.dbError) IN
            /\ q2.status = 0 /\ q2.pc = "next" /\ q2.nexts = 1
            /\ m.nexts = 1 => (q2.user = m.user /\ q2.user # NoUser)
            /\ m.nexts = 0 => q2.user = NoUser

C6_OptionalNeverRejects ==
    [][\A r \in Slots : C6_SecureStep(r) /\ C6_Task2Step(r)]_vars

C6_Witness ==
    \E r \in Slots :
        /\ reqs[r].method = "GET" /\ reqs[r].pc = "read" /\ reqs[r].nexts = 1
        /\ reqs[r].decoded = "u1" /\ ~reqs[r].dbError
        /\ ~users["u1"].isActive /\ users["u1"].exists
        /\ reqs[r].user = NoUser

\* C7. checkOwnership answers 404 for every resource id that names no stored
\* resource, whatever the role of the account; whenever it passes control
\* downstream the loaded resource is attached to the request, and on every
\* rejection no resource is attached and the handler is not run.
C7_OwnershipStep(r) ==
    LET q == reqs[r]
        q2 == reqs'[r]
    IN (Moved(r) /\ q.pc = "own") =>
         /\ (~Exists(q.pid) /\ ~q2.dbError) =>
              (q2.pc = "done" /\ q2.status = 404)
         /\ q2.ownNext =>
              (/\ Exists(q.pid) /\ q2.resource # NoPost
               /\ q2.resource.user = posts[q.pid].user)
         /\ ~q2.ownNext =>
              (q2.pc = "done" /\ q2.resource = NoPost /\ ~q2.ran)

C7_NotFoundIs404 == [][\A r \in Slots : C7_OwnershipStep(r)]_vars

\* C8. Every stored post has one owner, the account that created it; no
\* update changes the owner; and every update or deletion that takes effect
\* is requested by the post's owner or by an account with role 'admin'.
C8_OneOwner ==
    \A p \in PostIds :
        posts[p] # NoPost => (posts[p].user \in Users /\ posts[p].user = creator[p])

C8_MutationStep ==
    \A p \in PostIds :
        posts'[p] # posts[p] =>
            IF posts[p] = NoPost
            THEN \E r \in Slots :
                    /\ Moved(r) /\ reqs[r].method = "POST"
                    /\ posts'[p].user = reqs[r].user.id
            ELSE \E r \in Slots :
                    /\ Moved(r) /\ reqs[r].method \in {"PUT", "DELETE"}
                    /\ reqs[r].pid = p
                    /\ \/ reqs[r].user.id = posts[p].user
                       \/ reqs[r].user.role = "admin"
                    /\ posts'[p] # NoPost => posts'[p].user = posts[p].user

C8_OwnerIsCreator == [](C8_OneOwner) /\ [][C8_MutationStep]_vars

C8_Witness ==
    \E r \in Slots, p \in PostIds :
        /\ reqs[r].method = "PUT" /\ reqs[r].pid = p /\ reqs[r].status = 200
        /\ reqs[r].user.id = "adm"
        /\ posts[p] # NoPost /\ posts[p].user = "u1" /\ creator[p] = "u1"
        /\ posts[p].title = "World"

\* C9. After account a creates post r, an update of r by another account of
\* role 'user' is answered 403 and leaves r unchanged; an update of r by a is
\* answered 200 and stores the requested values; and until r is next modified,
\* every read of r is answered 200 with those values.
Owns(q, p) == q.user # NoUser /\ q.user.id = posts[p].user

C9_UpdateSteps(r) ==
    LET q == reqs[r]
        q2 == reqs'[r]
    IN /\ (/\ Moved(r) /\ q.pc = "own" /\ q.method = "PUT" /\ Exists(q.pid)
           /\ q.user.role = "user" /\ ~Owns(q, q.pid))
          => (q2.status = 403 /\ posts' = posts)
       /\ (/\ Moved(r) /\ q.pc = "own" /\ q.method = "PUT" /\ Exists(q.pid)
           /\ Owns(q, q.pid) /\ UpdateValid(Sanitize(q.body)))
          => q2.pc = "save"
       /\ (Moved(r) /\ q.pc = "save" /\ Exists(q.pid) /\ Owns(q, q.pid))
          => (/\ q2.status = 200
              /\ Updated(posts'[q.pid], q.body)
              /\ lastPut'[q.pid] = q.body)

\* Until the next update or the deletion, the post holds the updated values
C9_StoredIsUpdate ==
    \A p \in PostIds :
        lastPut[p] # NoPut => (Exists(p) /\ Updated(posts[p], lastPut[p]))

C9_ReadReturnsUpdate(r) ==
    LET q == reqs[r]
        q2 == reqs'[r]
    IN (/\ Moved(r) /\ q.pc = "read" /\ Exists(q.pid)
        /\ lastPut[q.pid] # NoPut)
       => (q2.status = 200 /\ Updated(q2.data, lastPut[q.pid]))

C9_EveryReadReturnsUpdate ==
    /\ [](C9_StoredIsUpdate)
    /\ [][\A r \in Slots : C9_UpdateSteps(r) /\ C9_ReadReturnsUpdate(r)]_vars

\* C9 as amended: the read is answered 200 with the updated values when r is
\* published or the reader is r's owner or an admin, and 404 otherwise.
MayRead(q, p) ==
    \/ posts[p].status = "published"
    \/ q.user # NoUser /\ (q.user.id = posts[p].user \/ q.user.role = "admin")

C9_VisibleReadReturnsUpdate(r) ==
    LET q == reqs[r]
        q2 == reqs'[r]
    IN (/\ Moved(r) /\ q.pc = "read" /\ Exists(q.pid)
        /\ lastPut[q.pid] # NoPut)
       => IF MayRead(q, q.pid)
          THEN q2.status = 200 /\ Updated(q2.data, lastPut[q.pid])
          ELSE q2.status = 404 /\ q2.data = NoPost

C9_EndToEnd ==
    /\ [](C9_StoredIsUpdate)
    /\ [][\A r \in Slots :
            C9_UpdateSteps(r) /\ C9_VisibleReadReturnsUpdate(r)]_vars

C9_Witness ==
    \E r \in Slots :
        /\ reqs[r].method = "GET" /\ reqs[r].status = 200
        /\ Exists(reqs[r].pid) /\ lastPut[reqs[r].pid] # NoPut
        /\ lastPut[reqs[r].pid].title = "World"
        /\ reqs[r].data.title = "World"
        /\ reqs[r].user = NoUser

\* C10. A registration whose email or username is already used by an account
\* is answered 409 and leaves the accounts unchanged; of two concurrent
\* registrations with the same email or username at most one creates an
\* account and the other is answered 409.
C10_RegisterStep(r) ==
    LET q == t2reqs[r]
        q2 == t2reqs'[r]
    IN (/\ T2Moved(r) /\ q.method = "REGISTER" /\ q.pc \in {"find", "insert"}
        /\ ExistingUser(q.body))
       => (q2.pc = "done" /\ q2.status = 409 /\ t2users' = t2users)

C10_Unique ==
    \A u, v \in Users :
        (Present(u) /\ Present(v) /\ u # v)
        => (/\ t2users[u].email # t2users[v].email
            /\ t2users[u].username # t2users[v].username)

C10_DuplicateIs409 ==
    [](C10_Unique) /\ [][\A r \in Slots : C10_RegisterStep(r)]_vars

----------------------------------------------------------------------------
(* Tokens *)

\* The secret each issuing site signs with, and the lifetime it is
\* configured with
SiteSecret(site) ==
    CASE site = "generateToken" -> JWT_SECRET
      [] site = "loginRefresh" -> T2RefreshSecret
      [] OTHER -> T2Secret

SiteLifetime(site) ==
    CASE site = "generateToken" -> JWT_EXPIRES_IN
      [] site = "register" -> RegisterTtl
      [] site = "loginRefresh" -> RefreshTtl
      [] OTHER -> AccessTtl

\* The sites whose tokens are presented to the authentication middleware
AccessSites == {"generateToken", "register", "login", "refresh"}

\* The issued tokens a header carries
Carried(h) == {e \in issued : e.site \in AccessSites /\ h = Hdr(<<Bearer, e.tok>>)}

\* C11. Token round trip: verifying a freshly issued token with the secret of
\* its site yields the account id it was issued for, and its expiry is the
\* issue time plus the configured lifetime; the authentication middleware,
\* given a just-issued token of an existing, active account, attaches exactly
\* that account.
C11_RoundTrip ==
    \A e \in issued :
        LET decoded == JwtVerify(<<e.tok>>, SiteSecret(e.site), e.at) IN
        /\ decoded.ok
        /\ decoded.userId = e.for
        /\ e.tok.exp = e.at + SiteLifetime(e.site)

C11_SecureStep(r) ==
    LET q == reqs[r]
        q2 == reqs'[r]
    IN /\ (Arrives(r) /\ q2.method \in Mandatory) =>
            \A e \in Carried(q2.hdr) :
                e.at = now => (q2.pc = "auth" /\ q2.decoded = e.for)
       /\ (/\ Moved(r) /\ q.pc = "auth" /\ q.method \in Mandatory
           /\ ~q2.dbError
           /\ users[q.decoded].exists /\ users[q.decoded].isActive) =>
            /\ q2.nexts = 1
            /\ \A e \in Carried(q.hdr) : q2.user.id = e.for

C11_Task2Step(r) ==
    LET q == t2reqs[r]
        q2 == t2reqs'[r]
    IN /\ (T2Arrives(r) /\ q2.method = "ME") =>
            \A e \in Carried(q2.hdr) :
                e.at = now => (q2.pc = "auth" /\ q2.decoded = e.for)
       /\ (/\ T2Moved(r) /\ q.pc = "auth" /\ q.method = "ME"
           /\ ~q2.dbError /\ Present(q.decoded)) =>
            /\ q2.nexts = 1
            /\ \A e \in Carried(q.hdr) : q2.user.id = e.for

C11_TokenRoundTrip ==
    /\ [](C11_RoundTrip)
    /\ [][\A r \in Slots : C11_SecureStep(r) /\ C11_Task2Step(r)]_vars

C11_Witness ==
    \E e \in issued :
        /\ e.at >= 1
        /\ reqs[1].hdr = Hdr(<<Bearer, e.tok>>)
        /\ reqs[1].nexts = 1
        /\ reqs[1].user.id = e.for

\* C12. Every token issued by any site (generateToken, register, login,
\* refresh) embeds the account id, an issuer, an audience and an expiry, and
\* no other claim (the issue time jwt.sign stamps next to the expiry apart);
\* the lifetime is 7 days for the long-lived token, 1 hour for the access
\* token and 7 days for the refresh token paired with it.
C12_IssuedClaims ==
    \A e \in issued :
        /\ {"userId", "iss", "aud", "exp"} \subseteq Claims(e.tok)
        /\ Claims(e.tok) \subseteq {"userId", "iss", "aud", "exp", "iat"}
        /\ e.tok.userId = e.for
        /\ e.site = "generateToken" => e.tok.exp - e.tok.iat = 7 * 24
        /\ e.site \in {"login", "refresh"} => e.tok.exp - e.tok.iat = 1
        /\ e.site = "loginRefresh" => e.tok.exp - e.tok.iat = 7 * 24

\* C13. A token is invalidated only by its expiry.  For an account that stays
\* existent and active, a token issued at any earlier point is accepted by
\* the authentication middleware on every request made before its expiry,
\* whatever logins, re-issuances and refreshes happened in between, and is
\* answered 401 on every request made from its expiry on.
C13_SecureStep(r) ==
    LET q == reqs[r]
        q2 == reqs'[r]
    IN /\ (Arrives(r) /\ q2.method \in Mandatory) =>
            \A e \in Carried(q2.hdr) :
                /\ now < e.tok.exp => (q2.pc = "auth" /\ q2.decoded = e.for)
                /\ now >= e.tok.exp =>
                     (q2.pc = "done" /\ q2.status = 401 /\ q2.nexts = 0)
       /\ (/\ Moved(r) /\ q.pc = "auth" /\ q.method \in Mandatory
           /\ Carried(q.hdr) # {} /\ ~q2.dbError
           /\ users[q.decoded].exists /\ users[q.decoded].isActive) =>
            (q2.nexts = 1 /\ q2.status \notin {401, 403})

C13_Task2Step(r) ==
    LET q == t2reqs[r]
        q2 == t2reqs'[r]
    IN /\ (T2Arrives(r) /\ q2.method = "ME") =>
            \A e \in Carried(q2.hdr) :
                /\ now < e.tok.exp => (q2.pc = "auth" /\ q2.decoded = e.for)
                /\ now >= e.tok.exp =>
                     (q2.pc = "done" /\ q2.status = 401 /\ q2.nexts = 0)
       /\ (/\ T2Moved(r) /\ q.pc = "auth" /\ q.method = "ME"
           /\ Carried(q.hdr) # {} /\ ~q2.dbError /\ Present(q.decoded)) =>
            (q2.nexts = 1 /\ q2.status \notin {401, 403})

C13_OnlyExpiryInvalidates ==
    [][\A r \in Slots : C13_SecureStep(r) /\ C13_Task2Step(r)]_vars

\* An earlier token is accepted after a later one was issued to the account
C13_Witness ==
    \E e \in issued, later \in issued :
        /\ later.for = e.for /\ later.at > e.at
        /\ reqs[1].hdr = Hdr(<<Bearer, e.tok>>)
        /\ reqs[1].nexts = 1 /\ reqs[1].user.id = e.for

\* C14. A post whose status is not 'published' is revealed by GET /posts and
\* GET /posts/:id only to its owner or an admin: for an anonymous requester,
\* one with an invalid token and another account of role 'user', the listing
\* never contains it and the single read answers 404 with no data, exactly
\* as for a post that does not exist.
Listed(data) == {data.posts[i].id : i \in 1 .. Len(data.posts)}

C14_Step(r) ==
    LET q == reqs[r]
        q2 == reqs'[r]
    IN /\ (/\ Moved(r) /\ q.pc = "read" /\ q.method = "GET"
           /\ Exists(q.pid) /\ posts[q.pid].status # "published"
           /\ ~(q.user # NoUser /\ (q.user.id = posts[q.pid].user
                                    \/ q.user.role = "admin")))
          => LET absent == GetHandler([q EXCEPT !.pid = NoId]) IN
             /\ q2.status = 404 /\ q2.data = NoPost
             /\ q2.status = absent.status /\ q2.data = absent.data
       /\ (Moved(r) /\ q.pc = "read" /\ q.method = "GET")
          => q2.status \in {200, 400, 404}
       /\ (Moved(r) /\ q.pc = "read" /\ q.method = "LIST" /\ q2.status = 200)
          => \A p \in Listed(q2.data) :
                 Exists(p) /\ posts[p].status = "published"
       /\ (Moved(r) /\ q.pc = "read" /\ q.user # NoUser)
          => Requester(q.hdr) = q.user.id

C14_HiddenUnlessOwnerOrAdmin ==
    [][\A r \in Slots : C14_Step(r)]_vars

C14_Witness ==
    /\ reqs[1].method = "GET" /\ reqs[1].status = 404
    /\ Exists(reqs[1].pid) /\ posts[reqs[1].pid].status # "published"
    /\ reqs[1].user = [id |-> "u2", role |-> "user"]

\* C15. The password of an account, plain or hashed, is never serialized back
\* to a client: no response of register, login, refresh, GET /me or a post
\* endpoint that embeds an account contains a password field.
HasPassword(obj) == "password" \in DOMAIN obj

\* The objects of a response that can be an account: the body itself, its
\* user member, and the author of each post of a listing
Embedded(q) ==
    IF q.method = "T2LIST" /\ q.status = 200
    THEN {q.data[i].post.author : i \in 1 .. Len(q.data)}
    ELSE {q.data} \cup (IF "user" \in DOMAIN q.data THEN {q.data.user} ELSE {})

C15_NoPasswordInResponse ==
    \A r \in Slots :
        t2reqs[r].pc = "done" =>
            \A obj \in Embedded(t2reqs[r]) : ~HasPassword(obj)

C15_Witness ==
    /\ t2reqs[1].method = "T2LIST" /\ t2reqs[1].status = 200
    /\ Len(t2reqs[1].data) > 0
    /\ "email" \in DOMAIN t2reqs[1].data[1].post.author
    /\ \E u \in Users : Present(u) /\ t2users[u].password.rounds > 0

\* C16. The stored password is always a hash of the account's current
\* plaintext password: a save in which the password changed recomputes the
\* hash, a save in which it was not modified leaves the stored hash unchanged
\* (it is never hashed a second time), so comparePassword with the current
\* plaintext, and the login that uses it, succeeds after any sequence of saves.
C16_StoredIsHashOfCurrent ==
    \A u \in Users : Present(u) => Compare(plain[u], t2users[u].password)

C16_Step(r) ==
    LET q2 == t2reqs'[r]
        u == T2FindByEmail(q2.body.email)
    IN /\ \A v \in Users :
            (Present(v) /\ Present(v)' /\ plain'[v] = plain[v])
            => t2users'[v].password = t2users[v].password
       /\ (/\ T2Arrives(r) /\ q2.method = "LOGIN" /\ ~q2.dbError
           /\ u # "" /\ q2.body.password = plain[u])
          => q2.status = 200

C16_HashTracksPlaintext ==
    /\ [](C16_StoredIsHashOfCurrent)
    /\ [][\A r \in Slots : C16_Step(r)]_vars

\* A login succeeds after a save that left the password alone
C16_Witness ==
    /\ t2reqs[1].method = "LOGIN" /\ t2reqs[1].status = 200
    /\ t2users[t2reqs[1].decoded].username = "bob"
    /\ plain[t2reqs[1].decoded] = "password1"

\* C17. Global rate limit: within any 10-minute window at most 100 requests
\* from one IP are served by the secure-blog API; further requests are
\* rejected with 'Too many requests', and other IPs are not affected.
C17_AtMostMaxPerWindow ==
    \A ip \in IPs : served[ip] <= GlobalMax

\* C18. Every handler catches its own failures and answers in the envelope
\* {success, message, data|errors}, success being true exactly when the
\* status is below 400; an unexpected exception, such as a database error,
\* is answered 500 with a generic message that does not contain the
\* exception's text.  Stated here for the listing of the express-blog posts
\* when its query throws.
C18_FailureEnvelope ==
    \A r \in Slots :
        (/\ t2reqs[r].pc = "done" /\ t2reqs[r].method = "T2LIST"
         /\ t2reqs[r].dbError)
        => /\ t2reqs[r].status = 500
           /\ "success" \in DOMAIN t2reqs[r].data
           /\ t2reqs[r].data.message # ErrMessage

\* The array stored for a room, none being the empty one
History(room) ==
    IF room \in DOMAIN chatHistory THEN chatHistory[room] ELSE <<>>

\* The step handles a "message" event: what the handler was given is the
\* last entry of relayed'
MessageHandled == Len(relayed') = Len(relayed) + 1

\* The step handles a "joinRoom" event of socket s for the room
JoinHandled(s, room) ==
    /\ socks[s].connected /\ socks'[s].connected
    /\ wire[s] # <<>> /\ Head(wire[s]) = JoinEvent(room)
    /\ wire'[s] = Tail(wire[s])

\* C19. Chat relay: a 'message' event for room R appends the message to R's
\* history and is broadcast to exactly the sockets that have joined R at that
\* moment, never to a socket that is only in other rooms; a 'joinRoom' event
\* for R sends the joining socket R's complete history as of that moment when
\* it is non-empty; 'disconnect' and 'joinRoom' leave every room's history
\* unchanged.
C19_RelayStep ==
    /\ MessageHandled =>
         LET last == relayed'[Len(relayed')]
             sent == [type |-> "message", msg |-> last.msg]
         IN /\ last.room \in DOMAIN chatHistory'
            /\ chatHistory'[last.room] = Append(History(last.room), last.msg)
            /\ \A room \in DOMAIN chatHistory' \ {last.room} :
                   chatHistory'[room] = History(room)
            /\ \A t \in Sockets :
                   inbox'[t] = IF t \in InRoom(last.room)
                               THEN Append(inbox[t], sent)
                               ELSE inbox[t]
    /\ ~MessageHandled => chatHistory' = chatHistory
    /\ \A s \in Sockets : \A room \in AnyRooms :
           JoinHandled(s, room) =>
               /\ room \in socks'[s].rooms
               /\ History(room) # <<>> =>
                      inbox'[s] = Append(inbox[s],
                                         [type |-> "history",
                                          payload |-> [kind |-> "array",
                                                       val |-> History(room)]])

C19_Relay == [][C19_RelayStep]_vars

\* The messages of the handled events that were addressed to the room, in
\* the order their handlers ran
Addressed(room) ==
    LET to == SelectSeq(relayed, LAMBDA e : e.room = room)
    IN [i \in 1 .. Len(to) |-> to[i].msg]

\* The messages a socket was sent by broadcasts, in the order it got them
Received(t) ==
    LET got == SelectSeq(inbox[t], LAMBDA e : e.type = "message")
    IN [i \in 1 .. Len(got) |-> got[i].msg]

RECURSIVE IsSubSeq(_, _)
IsSubSeq(part, whole) ==
    IF part = <<>> THEN TRUE
    ELSE IF whole = <<>> THEN FALSE
    ELSE IF Head(part) = Head(whole) THEN IsSubSeq(Tail(part), Tail(whole))
    ELSE IsSubSeq(part, Tail(whole))

IsPrefix(part, whole) ==
    /\ Len(part) <= Len(whole)
    /\ SubSeq(whole, 1, Len(part)) = part

\* C20. Chat relay under interleaving: with the sockets' joinRoom, message
\* and disconnect events handled in any order, each handler running to
\* completion, no message is lost, duplicated or reordered in the history:
\* each room's history is exactly the sequence of messages addressed to that
\* room in the order their handlers ran, and that is the order in which they
\* were broadcast (what a socket received is a part of it in that order, and
\* a history sent at a join was a prefix of it).
C20_HistoryIsHandlerOrder ==
    /\ \A room \in Rooms : History(room) = Addressed(room)
    /\ DOMAIN chatHistory \subseteq Rooms
    /\ \A i, j \in 1 .. Len(relayed) : i # j => relayed[i] # relayed[j]
    /\ \A t \in Sockets :
         /\ IsSubSeq(Received(t),
                     [i \in 1 .. Len(relayed) |-> relayed[i].msg])
         /\ \A i \in 1 .. Len(inbox[t]) :
                inbox[t][i].type = "history" =>
                    \E room \in Rooms :
                        IsPrefix(inbox[t][i].payload.val, History(room))

\* Two sockets' messages are in one room's history, and a socket of the room
\* was sent both
C20_Witness ==
    \E room \in Rooms : \E t \in Sockets :
        /\ Len(History(room)) = 2
        /\ History(room)[1].user # History(room)[2].user
        /\ Received(t) = History(room)

\* The fields of a post that a PUT body gives
Given(b) ==
    {f \in {"title", "body", "status"} : b[f] # Undefined}
    \cup (IF b.tags.given THEN {"tags"} ELSE {})

\* The fields of the stored post p that the step changes
Changed(p) == {f \in DOMAIN posts[p] : posts'[p][f] # posts[p][f]}

\* The step answers the PUT request of slot r with the status code
PutAnswered(r, code) ==
    /\ reqs[r].method = "PUT" /\ reqs[r].pc # "done"
    /\ reqs'[r].pc = "done" /\ reqs'[r].status = code

\* A rejected PUT leaves every stored post as it was
C21_RejectedStep ==
    \A r \in Slots : \A code \in {400, 401, 403, 404} :
        PutAnswered(r, code) => posts' = posts

\* C21 as stated. PUT /posts/:id changes only those of the fields title,
\* body, status and tags that are present in the request body; the owner
\* field and every field absent from the body keep their previous value, and
\* when the request is rejected (401, 403, 404 or validation 400) the stored
\* post is entirely unchanged.
C21_OnlyGivenFieldsStep ==
    /\ C21_RejectedStep
    /\ \A r \in Slots :
           PutAnswered(r, 200) =>
               /\ Exists(reqs[r].pid) /\ posts'[reqs[r].pid] # NoPost
               /\ Changed(reqs[r].pid) \subseteq Given(reqs[r].body)
               /\ \A p \in PostIds \ {reqs[r].pid} : posts'[p] = posts[p]

C21_FrameStep ==
    /\ C21_RejectedStep
    /\ \A r \in Slots :
           PutAnswered(r, 200) =>
               LET p == reqs[r].pid
                   given == Given(reqs[r].body)
               IN /\ Exists(p) /\ posts'[p] # NoPost
                  /\ Changed(p) \subseteq given \cup {"readTime", "updatedAt"}
                  /\ "readTime" \in Changed(p) => "body" \in Changed(p)
                  /\ "body" \in Changed(p) =>
                         posts'[p].readTime =
                             Ceil(Pieces(posts'[p].body), WordsPerMinute)
                  /\ "updatedAt" \in Changed(p) =>
                         /\ Changed(p) \cap given # {}
                         /\ posts'[p].updatedAt = now
                  /\ \A q \in PostIds \ {p} : posts'[q] = posts[q]

C22_NeverReappears ==
    \A p \in PostIds :
        (creator[p] # "" /\ posts[p] = NoPost) => posts'[p] = NoPost

\* C22 as stated. A PUT /posts/:id that answers 200 implies the post exists
\* in the store with the requested field values when the response is sent,
\* and a post removed by a completed DELETE never reappears, also when a
\* DELETE of the same post is interleaved between the PUT's ownership check
\* and its save.
C22_StoredAtResponseStep ==
    /\ C22_NeverReappears
    /\ \A r \in Slots :
           PutAnswered(r, 200) =>
               /\ posts'[reqs[r].pid] # NoPost
               /\ Updated(posts'[reqs[r].pid], reqs[r].body)

C22_StoredAtResponse == [][C22_StoredAtResponseStep]_vars

\* C22, amended. A PUT /posts/:id that answers 200 implies the post existed
\* in the store with the requested field values when its save completed (a
\* DELETE or another PUT that completes before the response is sent may have
\* removed or changed it since), and a post removed by a completed DELETE
\* never reappears: a PUT whose post was deleted between its ownership check
\* and its save answers 500 and stores nothing.
C22_StoredAtSaveStep ==
    /\ C22_NeverReappears
    /\ \A r \in Slots :
           LET q == reqs[r] IN
           /\ PutAnswered(r, 200) => q.pc = "populate"
           /\ (q.method = "PUT" /\ q.pc = "save" /\ reqs'[r] # q) =>
                  IF posts[q.pid] = NoPost
                  THEN PutAnswered(r, 500) /\ posts' = posts
                  ELSE /\ reqs'[r].pc = "populate"
                       /\ posts'[q.pid] # NoPost
                       /\ Updated(posts'[q.pid], q.body)
                       /\ posts'[q.pid].user = posts[q.pid].user

C22_StoredAtSave == [][C22_StoredAtSaveStep]_vars

\* A DELETE of the post completed between the ownership check and the save
\* of a PUT, which was answered 500; the post is gone
C22_Witness ==
    /\ reqs[1].method = "PUT" /\ reqs[1].pc = "done" /\ reqs[1].status = 500
    /\ reqs[1].resource # NoPost
    /\ reqs[2].method = "DELETE" /\ reqs[2].pc = "done" /\ reqs[2].status = 200
    /\ reqs[2].pid = reqs[1].pid
    /\ creator[reqs[1].pid] = "u1" /\ posts[reqs[1].pid] = NoPost

\* The step answers the GET /posts/:id of slot r with 200
ViewAnswered(r) ==
    /\ t2reqs[r].method = "T2GET" /\ t2reqs[r].pc = "views"
    /\ t2reqs'[r].pc = "done" /\ t2reqs'[r].status = 200

\* C23. View counter: after N requests GET /posts/:id on the same existing
\* post have completed, in any interleaving including concurrent ones, the
\* post's viewsCount has increased by exactly N (no increment is lost), and
\* viewsCount never decreases.  Step by step: each completed read raises the
\* stored count by one, and no step lowers it.
C23_ViewStep ==
    /\ \A r \in Slots :
           ViewAnswered(r) =>
               t2posts'[t2reqs[r].pid].viewsCount =
                   t2posts[t2reqs[r].pid].viewsCount + 1
    /\ \A p \in PostIds :
           (t2posts[p] # NoPost /\ t2posts'[p] # NoPost) =>
               t2posts'[p].viewsCount >= t2posts[p].viewsCount

C23_NoViewLost == [][C23_ViewStep]_vars

\* C25. Publication timestamp: after any sequence of create (POST /posts)
\* and update (PUT /posts/:id) requests, every stored post whose status is
\* 'published' has publishedAt set, and once publishedAt is set no later save
\* changes it.
C25_PublishedIsStamped ==
    \A p \in PostIds :
        (t2posts[p] # NoPost /\ t2posts[p].status = "published")
        => t2posts[p].publishedAt # {}

C25_StampStep ==
    \A p \in PostIds :
        (t2posts[p] # NoPost /\ t2posts[p].publishedAt # {}
         /\ t2posts'[p] # NoPost)
        => t2posts'[p].publishedAt = t2posts[p].publishedAt

C25_PublishedAt == [](C25_PublishedIsStamped) /\ [][C25_StampStep]_vars

RECURSIVE Flatten(_)
\* The messages of a sequence of "history" and "message" events, in order
Flatten(events) ==
    IF events = <<>> THEN <<>>
    ELSE (IF Head(events).type = "history" THEN Head(events).payload.val
          ELSE <<Head(events).msg>>)
         \o Flatten(Tail(events))

\* The messages addressed to the room that socket t was sent, in a history
\* or as a broadcast, in the order it was sent them
Delivered(t, room) ==
    SelectSeq(Flatten(inbox[t]),
              LAMBDA m : \E i \in 1 .. Len(relayed) :
                             relayed[i].room = room /\ relayed[i].msg = m)

\* C24. Chat relay delivery: for a socket that joins room R exactly once and
\* stays connected, every message ever sent to R is delivered to it exactly
\* once, either inside the history snapshot sent at join (messages handled
\* before the join) or as a broadcast (messages handled after the join),
\* never both and never neither.
C24_DeliveredExactlyOnce ==
    \A t \in Sockets : \A room \in Rooms :
        (socks[t].connected /\ room \in socks[t].rooms)
        => Delivered(t, room) = History(room)

\* A socket of a room was sent the room's first message in the history of
\* its join and the second as a broadcast
C24_Witness ==
    \E t \in Sockets : \E room \in Rooms :
        /\ socks[t].connected /\ room \in socks[t].rooms
        /\ Len(History(room)) = 2
        /\ \E i \in 1 .. Len(inbox[t]) :
               /\ inbox[t][i].type = "history"
               /\ inbox[t][i].payload.val = <<History(room)[1]>>
               /\ \E j \in (i + 1) .. Len(inbox[t]) :
                      /\ inbox[t][j].type = "message"
                      /\ inbox[t][j].msg = History(room)[2]

\* The step serves a POST /refresh in slot r
Refreshed(r) == T2Arrives(r) /\ t2reqs'[r].method = "REFRESH"

\* The presented token is one that /refresh accepts at this moment
Refreshable(token) ==
    /\ Len(token) = 1 /\ token[1].k = "jwt"
    /\ token[1].key = T2RefreshSecret
    /\ now < token[1].exp
    /\ Present(token[1].userId)

C26_RefreshStep(r) ==
    Refreshed(r) =>
        LET q == t2reqs'[r]
            token == q.body.refresh
        IN /\ q.pc = "done" /\ q.status \in {200, 400, 401}
           /\ q.status = 400 <=> token = NoToken
           /\ q.status = 200 =>
                  /\ Refreshable(token)
                  /\ q.data = [access |-> AccessToken(token[1].userId, now)]
           /\ (Refreshable(token) /\ ~q.dbError) => q.status = 200
           /\ \A e \in issued :
                  (e.site \in AccessSites /\ token = <<e.tok>>) => q.status = 401

\* A refresh token in the Authorization header is rejected by auth
C26_AuthStep(r) ==
    (T2Arrives(r) /\ t2reqs'[r].method = "ME") =>
        \A e \in issued :
            (e.site = "loginRefresh" /\ t2reqs'[r].hdr = Hdr(<<Bearer, e.tok>>))
            => (t2reqs'[r].pc = "done" /\ t2reqs'[r].status = 401)

\* C26. POST /refresh returns a new access token only when the presented
\* token verifies under the refresh secret, is unexpired, and its account
\* still exists; it answers 400 when no token is supplied and 401 in every
\* other failing case.  Access and refresh tokens are not interchangeable: a
\* token issued as an access token is never accepted by /refresh, and a
\* refresh token is never accepted by the auth middleware.
C26_RefreshOnly ==
    [][\A r \in Slots : C26_RefreshStep(r) /\ C26_AuthStep(r)]_vars

\* An unexpired access token of an existing account was presented to
\* /refresh and answered 401, and a refresh token has been handed out
C26_Witness ==
    /\ t2reqs[1].method = "REFRESH" /\ t2reqs[1].status = 401
    /\ \E e \in issued :
           /\ e.site = "login" /\ t2reqs[1].body.refresh = <<e.tok>>
           /\ now < e.tok.exp /\ Present(e.for)
    /\ \E e \in issued : e.site = "loginRefresh"

\* The ids of the stored posts are pairwise distinct, and they are the ids
\* created and not deleted since
C27_DistinctIds ==
    /\ \A i, j \in 1 .. Len(memPosts) :
           i # j => memPosts[i].id # memPosts[j].id
    /\ {memPosts[i].id : i \in 1 .. Len(memPosts)} = memLive

\* A request is served: memRes' is its response
C27_Step ==
    (memRes' # memRes \/ memPosts' # memPosts) =>
        LET q == memRes' IN
        /\ q.method \in {"GET", "PUT"} =>
               /\ q.status = (IF q.id \in memLive THEN 200 ELSE 404)
               /\ \A i \in 1 .. Len(memPosts) :
                      memPosts[i].id # q.id =>
                          (i <= Len(memPosts') /\ memPosts'[i] = memPosts[i])
               /\ Len(memPosts') = Len(memPosts)
        /\ q.method = "GET" => memPosts' = memPosts
        /\ q.method = "DELETE" =>
               /\ q.status = 200
               /\ memPosts' = SelectSeq(memPosts, LAMBDA p : p.id # q.id)
               /\ q.id \notin memLive => memPosts' = memPosts

\* C27. In-memory posts store: after any sequence of POST, PUT and DELETE
\* requests, post ids are pairwise distinct; GET /posts/:id and PUT
\* /posts/:id answer 200 exactly for ids that were created and not deleted
\* since, and 404 otherwise; DELETE removes at most the post with the given
\* id, leaves all other posts unchanged, and is idempotent (it answers 200
\* and changes nothing for an unknown or already deleted id).
C27_InMemoryStore == [](C27_DistinctIds) /\ [][C27_Step]_vars

\* A second DELETE of a post was answered 200 while another post is stored
C27_Witness ==
    /\ memRes.method = "DELETE" /\ memRes.status = 200
    /\ memRes.id < memNext /\ memRes.id \notin memLive
    /\ memLive # {}
    /\ Len(memPosts) = Cardinality(memLive)

\* ---------------------------------------------------------------------
\* The two paginated listings of the secure blog: posts of two authors,
\* published and draft, read page by page
\* ---------------------------------------------------------------------

PageAuthors == {Hdr(<<Bearer, Jwt(u, JWT_SECRET, MaxTime + 1)>>) : u \in {"u1", "u2"}}

PageCreateBodies ==
    {Body("Hello", Content, U, NoTags), Body("Hello", Content, "draft", NoTags)}

PageNumbers == {Num(p) : p \in 1 .. (MaxPosts + 1)}
PageLimits == {Num(l) : l \in 1 .. MaxPosts}

PageQueries ==
    {Query(p, l, U, U) : p \in PageNumbers, l \in PageLimits}
    \cup {Query(NoNum, Num(1), U, "u1"), Query(Num(0), NoNum, U, U),
          Query(NoNum, Num(LimitMax + 1), U, U)}

MyQueries ==
    {MyQuery(p, l, s) : p \in PageNumbers, l \in PageLimits, s \in {U, "draft"}}
    \cup {MyQuery(NoNum, NoNum, U), MyQuery(NoNum, NoNum, "deleted")}

NextPage ==
    \/ ArrivePost(1, PageAuthors, PageCreateBodies, Ok)
    \/ \E r \in Slots : AuthenticateResume(r, Ok)
    \/ PostSave(1)
    \/ ArriveList(2, {HdrAbsent}, PageQueries)
    \/ ListRun(2)
    \/ ArriveMy(2, PageAuthors \cup {HdrAbsent}, MyQueries)
    \/ MyRun(2)

SpecPage == Init /\ [][NextPage]_vars

\* The sorted result a listing request pages through: the matching posts,
\* the latest first
Sorted(q) ==
    IF q.method = "LIST" THEN Found(MaxPosts, q.body)
    ELSE FindByUser(MaxPosts, q.user.id,
                    IF q.body.status = Undefined THEN "published" ELSE q.body.status)

RECURSIVE Pages(_, _, _)
\* Pages 1 .. n of a sorted result, one after the other
Pages(sorted, n, limit) ==
    IF n = 0 THEN <<>>
    ELSE Pages(sorted, n - 1, limit) \o Paged(sorted, PageSkip(n, limit), limit)

\* A listing request of slot r is answered 200 in this step
C28_Answered(r) ==
    /\ reqs[r].pc = "read" /\ reqs[r].method \in {"LIST", "MY"}
    /\ reqs'[r].pc = "done" /\ reqs'[r].status = 200

C28_Step ==
    \A r \in Slots :
        C28_Answered(r) =>
            LET q == reqs[r]
                page == IF q.body.page.given THEN q.body.page.val ELSE 1
                limit == IF q.body.limit.given THEN q.body.limit.val ELSE 10
                sorted == Sorted(q)
                T == Len(sorted)
                first == (page - 1) * limit
                end == IF page * limit < T THEN page * limit ELSE T
                count == IF end > first THEN end - first ELSE 0
                data == reqs'[r].data
                pg == data.pagination
            IN /\ page >= 1 /\ limit \in 1 .. 50
               /\ pg.totalPages \in 0 .. T
               /\ (pg.totalPages - 1) * limit < T /\ T <= pg.totalPages * limit
               /\ pg.hasNextPage = (page < pg.totalPages)
               /\ pg.hasPrevPage = (page > 1)
               /\ Len(data.posts) = count
               /\ \A i \in 1 .. count : data.posts[i].id = sorted[first + i]
               /\ Pages(sorted, pg.totalPages, limit) = sorted

\* C28. Pagination of GET /posts and GET /posts/my: for every page >= 1,
\* limit in 1..50 and matching-post count T (store not modified meanwhile),
\* the response has totalPages = ceil(T/limit), hasNextPage exactly when
\* page < totalPages, hasPrevPage exactly when page > 1, and contains the
\* posts at positions (page-1)*limit up to min(page*limit, T)-1 of the
\* sorted result, so that pages 1..totalPages together contain every
\* matching post exactly once.
C28_Pagination == [][C28_Step]_vars

\* GET /posts/my answered the second and last page of the caller's posts
C28_Witness ==
    /\ reqs[2].method = "MY" /\ reqs[2].pc = "done" /\ reqs[2].status = 200
    /\ reqs[2].data.pagination.currentPage > 1
    /\ reqs[2].data.pagination.currentPage = reqs[2].data.pagination.totalPages
    /\ reqs[2].data.pagination.hasPrevPage
    /\ ~reqs[2].data.pagination.hasNextPage
    /\ Len(reqs[2].data.posts) = 1

====
